---- MODULE Spec2Model ----
(***************************************************************************)
(* WordLang (SK2006MC/WordLang): lexer, parser, tree-walking evaluator and *)
(* driver, modelled from the Go sources.                                   *)
(*                                                                         *)
(* Go strings that can come from the source text are sequences of          *)
(* one-character strings, so indexing, slicing and len() are those of the  *)
(* code.  Token types and object types are TLA+ strings.                   *)
(***************************************************************************)
EXTENDS Integers, Sequences, FiniteSets, TLC

VARIABLES
    pc,        \* position of the running driver / harness
    input,     \* the source text handed to lexer.New
    lx,        \* the Lexer object of the lexer harness
    toks,      \* tokens returned so far by lx.NextToken
    p,         \* the Parser object of the driver
    program,   \* the *ast.Program being evaluated
    ev,        \* evaluation state: environment chain, stdout, process state
    evaluated, \* the object returned by Eval
    evalCalls, \* one entry per interpreter.Eval call made by the driver
    nlines,    \* lines read so far by repl
    stdin      \* the lines standard input holds for repl

vars == <<pc, input, lx, toks, p, program, ev, evaluated, evalCalls, nlines, stdin>>

-----------------------------------------------------------------------------
(* Go values.  A record stands for a value of one of several Go types and   *)
(* carries the field that tells them apart: "node" for an ast.Node, "type"  *)
(* for an object.Object (what Type() returns), "fmt" for a formatted string. *)

\* a nil ast.Node, ast.Statement or ast.Expression
Nil == [node |-> "nil"]

\* a nil object.Object
NilObject == [type |-> "nil"]

\* fmt.Sprintf(format, args...): the format and its arguments
Sprintf(format, args) == [fmt |-> format, with |-> args]

-----------------------------------------------------------------------------
(* Strings *)

\* Go string constants, as sequences of one-character strings
StrTab ==
       ("let" :> <<"l", "e", "t">>)
    @@ ("function" :> <<"f", "u", "n", "c", "t", "i", "o", "n">>)
    @@ ("call" :> <<"c", "a", "l", "l">>)
    @@ ("if" :> <<"i", "f">>)
    @@ ("else" :> <<"e", "l", "s", "e">>)
    @@ ("elseif" :> <<"e", "l", "s", "e", "i", "f">>)
    @@ ("endif" :> <<"e", "n", "d", "i", "f">>)
    @@ ("while" :> <<"w", "h", "i", "l", "e">>)
    @@ ("endwhile" :> <<"e", "n", "d", "w", "h", "i", "l", "e">>)
    @@ ("foreach" :> <<"f", "o", "r", "e", "a", "c", "h">>)
    @@ ("in" :> <<"i", "n">>)
    @@ ("endforeach" :> <<"e", "n", "d", "f", "o", "r", "e", "a", "c", "h">>)
    @@ ("input" :> <<"i", "n", "p", "u", "t">>)
    @@ ("add" :> <<"a", "d", "d">>)
    @@ ("sub" :> <<"s", "u", "b">>)
    @@ ("mult" :> <<"m", "u", "l", "t">>)
    @@ ("div" :> <<"d", "i", "v">>)
    @@ ("and" :> <<"a", "n", "d">>)
    @@ ("or" :> <<"o", "r">>)
    @@ ("not" :> <<"n", "o", "t">>)
    @@ ("equals" :> <<"e", "q", "u", "a", "l", "s">>)
    @@ ("notequals" :> <<"n", "o", "t", "e", "q", "u", "a", "l", "s">>)
    @@ ("greater" :> <<"g", "r", "e", "a", "t", "e", "r">>)
    @@ ("less" :> <<"l", "e", "s", "s">>)
    @@ ("then" :> <<"t", "h", "e", "n">>)
    @@ ("do" :> <<"d", "o">>)
    @@ ("end" :> <<"e", "n", "d">>)
    @@ ("list" :> <<"l", "i", "s", "t">>)
    @@ ("from" :> <<"f", "r", "o", "m">>)
    @@ ("index" :> <<"i", "n", "d", "e", "x">>)
    @@ ("isdefined" :> <<"i", "s", "d", "e", "f", "i", "n", "e", "d">>)
    @@ ("exit" :> <<"e", "x", "i", "t">>)
    @@ ("return" :> <<"r", "e", "t", "u", "r", "n">>)
    @@ ("true" :> <<"t", "r", "u", "e">>)
    @@ ("false" :> <<"f", "a", "l", "s", "e">>)
    @@ ("be" :> <<"b", "e">>)
    @@ ("endfunction" :> <<"e", "n", "d", "f", "u", "n", "c", "t", "i", "o", "n">>)
    @@ ("than" :> <<"t", "h", "a", "n">>)
    @@ ("equal" :> <<"e", "q", "u", "a", "l">>)
    @@ ("item" :> <<"i", "t", "e", "m">>)
    @@ ("at" :> <<"a", "t">>)
    @@ ("get" :> <<"g", "e", "t">>)
    @@ ("is" :> <<"i", "s">>)
    @@ ("defined" :> <<"d", "e", "f", "i", "n", "e", "d">>)
    @@ ("convert" :> <<"c", "o", "n", "v", "e", "r", "t">>)
    @@ ("to" :> <<"t", "o">>)
    @@ ("number" :> <<"n", "u", "m", "b", "e", "r">>)
    @@ ("string" :> <<"s", "t", "r", "i", "n", "g">>)
    @@ ("print" :> <<"p", "r", "i", "n", "t">>)
    @@ ("subtract" :> <<"s", "u", "b", "t", "r", "a", "c", "t">>)
    @@ ("multiply" :> <<"m", "u", "l", "t", "i", "p", "l", "y">>)
    @@ ("divide" :> <<"d", "i", "v", "i", "d", "e">>)
    @@ ("x" :> <<"x">>)
    @@ ("y" :> <<"y">>)
    @@ ("z" :> <<"z">>)
    @@ ("u" :> <<"u">>)
    @@ ("f" :> <<"f">>)
    @@ ("a" :> <<"a">>)
    @@ ("b" :> <<"b">>)
    @@ ("c" :> <<"c">>)
    @@ ("WordLang > " :> <<"W", "o", "r", "d", "L", "a", "n", "g", " ", ">", " ">>)
    @@ ("Parser errors:" :> <<"P", "a", "r", "s", "e", "r", " ", "e", "r", "r", "o", "r", "s", ":">>)
    @@ ("e" :> <<"e">>)
    @@ ("null" :> <<"n", "u", "l", "l">>)
    @@ ("1" :> <<"1">>)
    @@ ("1.5" :> <<"1", ".", "5">>)
    @@ ("1.2.5" :> <<"1", ".", "2", ".", "5">>)
    @@ ("010" :> <<"0", "1", "0">>)
    @@ ("08" :> <<"0", "8">>)
    @@ ("2" :> <<"2">>)
    @@ ("3" :> <<"3">>)
    @@ ("5" :> <<"5">>)
    @@ ("6" :> <<"6">>)
    @@ ("greater or equal" :> <<"g", "r", "e", "a", "t", "e", "r", " ", "o", "r", " ", "e", "q", "u", "a", "l">>)
    @@ ("less or equal" :> <<"l", "e", "s", "s", " ", "o", "r", " ", "e", "q", "u", "a", "l">>)
    @@ ("get item at index" :> <<"g", "e", "t", " ", "i", "t", "e", "m", " ", "a", "t", " ", "i", "n", "d", "e", "x">>)
    @@ ("convert to number" :> <<"c", "o", "n", "v", "e", "r", "t", " ", "t", "o", " ", "n", "u", "m", "b", "e", "r">>)
    @@ ("convert to string" :> <<"c", "o", "n", "v", "e", "r", "t", " ", "t", "o", " ", "s", "t", "r", "i", "n", "g">>)
    @@ ("end function" :> <<"e", "n", "d", " ", "f", "u", "n", "c", "t", "i", "o", "n">>)
    @@ ("greater than" :> <<"g", "r", "e", "a", "t", "e", "r", " ", "t", "h", "a", "n">>)
    @@ ("less than" :> <<"l", "e", "s", "s", " ", "t", "h", "a", "n">>)
    @@ ("is defined" :> <<"i", "s", " ", "d", "e", "f", "i", "n", "e", "d">>)
Str(s) == StrTab[s]

\* Go's s[a:b] on a 0-based string
Slice(s, a, b) == SubSeq(s, a + 1, b)

RECURSIVE JoinWords(_)
\* the words of a source text separated by single spaces
JoinWords(ws) ==
    IF ws = <<>> THEN <<>>
    ELSE IF Len(ws) = 1 THEN ws[1]
    ELSE ws[1] \o <<" ">> \o JoinWords(Tail(ws))

-----------------------------------------------------------------------------
(* package token *)

ILLEGAL == "ILLEGAL"
EOF == "EOF"
IDENT == "IDENT"
NUMBER == "NUMBER"

\* var keywords (the map literal)
keywords ==
       (Str("let") :> "LET") @@ (Str("function") :> "FUNCTION") @@ (Str("call") :> "CALL")
    @@ (Str("if") :> "IF") @@ (Str("else") :> "ELSE") @@ (Str("elseif") :> "ELSEIF")
    @@ (Str("endif") :> "ENDIF") @@ (Str("while") :> "WHILE") @@ (Str("endwhile") :> "ENDWHILE")
    @@ (Str("foreach") :> "FOREACH") @@ (Str("in") :> "IN") @@ (Str("endforeach") :> "ENDFOREACH")
    @@ (Str("input") :> "INPUT") @@ (Str("add") :> "ADD") @@ (Str("sub") :> "SUBTRACT")
    @@ (Str("mult") :> "MULTIPLY") @@ (Str("div") :> "DIVIDE") @@ (Str("and") :> "AND")
    @@ (Str("or") :> "OR") @@ (Str("not") :> "NOT") @@ (Str("equals") :> "EQUALS")
    @@ (Str("notequals") :> "NOTEQUALS") @@ (Str("greater") :> "GREATERTHAN")
    @@ (Str("less") :> "LESSTHAN") @@ (Str("greater or equal") :> "GREATEREQUAL")
    @@ (Str("less or equal") :> "LESSEQUAL") @@ (Str("then") :> "THEN") @@ (Str("do") :> "DO")
    @@ (Str("end") :> "END") @@ (Str("list") :> "LIST")
    @@ (Str("get item at index") :> "GETITEMATINDEX") @@ (Str("from") :> "FROM")
    @@ (Str("index") :> "INDEX") @@ (Str("isdefined") :> "ISDEFINED") @@ (Str("exit") :> "EXIT")
    @@ (Str("return") :> "RETURN") @@ (Str("convert to number") :> "CONVERTTONUMBER")
    @@ (Str("convert to string") :> "CONVERTTOSTRING") @@ (Str("true") :> "TRUE")
    @@ (Str("false") :> "FALSE") @@ (Str("be") :> "BE") @@ (Str("endfunction") :> "ENDFUNCTION")

LookupIdent(ident) ==
    IF ident \in DOMAIN keywords THEN keywords[ident] ELSE IDENT

Token(type, literal, line, column) ==
    [Type |-> type, Literal |-> literal, Line |-> line, Column |-> column]

\* the zero value of token.Token
ZeroToken == Token("", <<>>, 0, 0)

-----------------------------------------------------------------------------
(* package lexer *)

\* the byte 0, which readChar also uses to signal the end of the input
NUL == "NUL"

Letters ==
    {"a", "b", "c", "d", "e", "f", "g", "h", "i", "j", "k", "l", "m", "n", "o", "p", "q",
     "r", "s", "t", "u", "v", "w", "x", "y", "z",
     "A", "B", "C", "D", "E", "F", "G", "H", "I", "J", "K", "L", "M", "N", "O", "P", "Q",
     "R", "S", "T", "U", "V", "W", "X", "Y", "Z"}
Digits == {"0", "1", "2", "3", "4", "5", "6", "7", "8", "9"}
Spaces == {" ", "\t", "\n", "\r"}

IsLetter(ch) == ch \in Letters
IsDigit(ch) == ch \in Digits
IsSpace(ch) == ch \in Spaces

readChar(l) ==
    [l EXCEPT !.ch = IF l.readPosition >= Len(l.input) THEN NUL
                     ELSE l.input[l.readPosition + 1],
              !.position = l.readPosition,
              !.readPosition = l.readPosition + 1,
              !.column = l.column + 1]

New(in) ==
    readChar([input |-> in, position |-> 0, readPosition |-> 0, ch |-> NUL,
              line |-> 1, column |-> 1, errors |-> <<>>])

peekChar(l) ==
    IF l.readPosition >= Len(l.input) THEN NUL ELSE l.input[l.readPosition + 1]

RECURSIVE skipWhitespace(_)
skipWhitespace(l) ==
    IF IsSpace(l.ch)
    THEN skipWhitespace(readChar(IF l.ch = "\n"
                                 THEN [l EXCEPT !.line = l.line + 1, !.column = 0]
                                 ELSE l))
    ELSE l

RECURSIVE readWhile(_, _)
\* the loop "for <ch is in class> { l.readChar() }"
readWhile(l, class) ==
    IF l.ch \in class THEN readWhile(readChar(l), class) ELSE l

\* readIdentifier: the lexer afterwards, and the string returned
readIdentifier(l) ==
    LET l1 == readWhile(l, Letters \cup Digits \cup {"_"})
    IN  [l |-> l1, s |-> Slice(l.input, l.position, l1.position)]

\* peekKeyword: the lexer afterwards (position, readPosition, column and ch are
\* restored; line is not saved), and the bool returned
peekKeyword(l, keyword) ==
    LET l1 == skipWhitespace(l)
        l2 == readWhile(l1, Letters)
        peekedWord == Slice(l.input, l1.position, l2.position)
    IN  [l |-> [l2 EXCEPT !.position = l.position, !.readPosition = l.readPosition,
                          !.column = l.column, !.ch = l.ch],
         ok |-> peekedWord = keyword]

readNumber(l) ==
    LET l1 == readWhile(l, Digits \cup {"."})
        lit == Slice(l.input, l.position, l1.position)
    IN  [l |-> l1, tok |-> Token(NUMBER, lit, l1.line, l1.column - Len(lit) + 1)]

RECURSIVE readUntil(_, _)
\* the loop "for l.ch != a && l.ch != 0 { l.readChar() }"
readUntil(l, a) ==
    IF l.ch # a /\ l.ch # NUL THEN readUntil(readChar(l), a) ELSE l

readString(l) ==
    LET startPos == l.position + 1
        l1 == readUntil(readChar(l), "\"")
        lit == Slice(l.input, startPos, l1.position)
    IN  [l |-> l1, tok |-> Token("STRING", lit, l1.line, l1.column - Len(lit) - 1)]

readComment(l) == readUntil(l, "\n")

newToken(tokenType, ch) == Token(tokenType, <<ch>>, 0, 0)

\* "return token.Token{Type: t, Literal: lit, Line: l.line, Column: l.column - len(lit) + 1}"
WordToken(l, t, lit) ==
    [l |-> l, tok |-> Token(t, Str(lit), l.line, l.column - Len(Str(lit)) + 1)]

\* case "greater" / case "less" of NextToken, l being the lexer after the word
CompareWord(l, bare, orEqual, orEqualT, than, thanT) ==
    LET pOr == peekKeyword(l, Str("or"))
        cOr == readIdentifier(pOr.l)              \* "Consume or"
        pEq == peekKeyword(cOr.l, Str("equal"))
        cEq == readIdentifier(pEq.l)              \* "Consume equal"
        pTh == peekKeyword(pOr.l, Str("than"))
        cTh == readIdentifier(pTh.l)              \* "Consume than"
    IN  IF pOr.ok
        THEN IF pEq.ok THEN WordToken(cEq.l, orEqualT, orEqual)
             ELSE WordToken(pEq.l, "OR", "or")
        ELSE IF pTh.ok THEN WordToken(cTh.l, thanT, than)
        ELSE WordToken(pTh.l, thanT, bare)

\* case "end" of NextToken
EndWord(l) ==
    LET pIf == peekKeyword(l, Str("if"))
        pWh == peekKeyword(pIf.l, Str("while"))
        pFe == peekKeyword(pWh.l, Str("foreach"))
        pFn == peekKeyword(pFe.l, Str("function"))
    IN  IF pIf.ok THEN WordToken(readIdentifier(pIf.l).l, "ENDIF", "endif")
        ELSE IF pWh.ok THEN WordToken(readIdentifier(pWh.l).l, "ENDWHILE", "endwhile")
        ELSE IF pFe.ok THEN WordToken(readIdentifier(pFe.l).l, "ENDFOREACH", "endforeach")
        ELSE IF pFn.ok THEN WordToken(readIdentifier(pFn.l).l, "ENDFUNCTION", "end function")
        ELSE WordToken(pFn.l, "END", "end")

\* case "get" of NextToken
GetWord(l) ==
    LET pItem == peekKeyword(l, Str("item"))
        cItem == readIdentifier(pItem.l)
        pAt == peekKeyword(cItem.l, Str("at"))
        cAt == readIdentifier(pAt.l)
        pIndex == peekKeyword(cAt.l, Str("index"))
        cIndex == readIdentifier(pIndex.l)
    IN  IF ~pItem.ok THEN WordToken(pItem.l, "GETITEMATINDEX", "get")
        ELSE IF ~pAt.ok THEN WordToken(pAt.l, "GETITEMATINDEX", "get")
        ELSE IF ~pIndex.ok THEN WordToken(pIndex.l, "GETITEMATINDEX", "get")
        ELSE WordToken(cIndex.l, "GETITEMATINDEX", "get item at index")

\* case "is" of NextToken
IsWord(l) ==
    LET pDef == peekKeyword(l, Str("defined"))
    IN  IF pDef.ok THEN WordToken(readIdentifier(pDef.l).l, "ISDEFINED", "is defined")
        ELSE WordToken(pDef.l, "ISDEFINED", "is")

\* case "convert" of NextToken
ConvertWord(l) ==
    LET pTo == peekKeyword(l, Str("to"))
        cTo == readIdentifier(pTo.l)
        pNum == peekKeyword(cTo.l, Str("number"))
        pStr == peekKeyword(pNum.l, Str("string"))
    IN  IF ~pTo.ok THEN WordToken(pTo.l, "CONVERTTONUMBER", "convert")
        ELSE IF pNum.ok
             THEN WordToken(readIdentifier(pNum.l).l, "CONVERTTONUMBER", "convert to number")
        ELSE IF pStr.ok
             THEN WordToken(readIdentifier(pStr.l).l, "CONVERTTOSTRING", "convert to string")
        ELSE WordToken(pStr.l, "CONVERTTONUMBER", "convert")

\* the "if unicode.IsLetter" branch of NextToken
LexWord(l) ==
    LET r == readIdentifier(l)
        ident == r.s
    IN  IF ident = Str("greater")
        THEN CompareWord(r.l, "greater", "greater or equal", "GREATEREQUAL",
                         "greater than", "GREATERTHAN")
        ELSE IF ident = Str("less")
        THEN CompareWord(r.l, "less", "less or equal", "LESSEQUAL", "less than", "LESSTHAN")
        ELSE IF ident = Str("end") THEN EndWord(r.l)
        ELSE IF ident = Str("get") THEN GetWord(r.l)
        ELSE IF ident = Str("is") THEN IsWord(r.l)
        ELSE IF ident = Str("convert") THEN ConvertWord(r.l)
        ELSE [l |-> r.l,
              tok |-> Token(LookupIdent(ident), ident, r.l.line, r.l.column - Len(ident) + 1)]

RECURSIVE NextToken(_)
\* NextToken: the lexer afterwards, and the token returned
NextToken(l0) ==
    LET l == skipWhitespace(l0)
    IN  IF l.ch = NUL
        THEN [l |-> readChar(l),
              tok |-> [newToken(EOF, l.ch) EXCEPT !.Line = l.line, !.Column = l.column]]
        ELSE IF l.ch = "#" THEN NextToken(readComment(l))
        ELSE IF l.ch = "\""
        THEN LET r == readString(l) IN [l |-> readChar(r.l), tok |-> r.tok]
        ELSE IF IsLetter(l.ch) THEN LexWord(l)
        ELSE IF IsDigit(l.ch) THEN readNumber(l)
        ELSE [l |-> readChar(l),
              tok |-> [newToken(ILLEGAL, l.ch) EXCEPT !.Line = l.line, !.Column = l.column]]

-----------------------------------------------------------------------------
(* package ast.  A node is a record whose field "node" names its Go type; the *)
(* Token field, read only by TokenLiteral() and String(), is left out.        *)

Identifier(value) == [node |-> "Identifier", Value |-> value]
IntegerLiteral(value) == [node |-> "IntegerLiteral", Value |-> value]
StringLiteral(value) == [node |-> "StringLiteral", Value |-> value]
BooleanLiteral(value) == [node |-> "BooleanLiteral", Value |-> value]
FloatLiteral(value) == [node |-> "FloatLiteral", Value |-> value]
LetStatement(name, value) == [node |-> "LetStatement", Name |-> name, Value |-> value]
ReturnStatement(value) == [node |-> "ReturnStatement", ReturnValue |-> value]
ExpressionStatement(e) == [node |-> "ExpressionStatement", Expression |-> e]
BlockStatement(stmts) == [node |-> "BlockStatement", Statements |-> stmts]
ElseIfBlock(cond, block) == [Condition |-> cond, Block |-> block]
IfStatement(cond, thenB, elseIfs, elseB) ==
    [node |-> "IfStatement", Condition |-> cond, ThenBlock |-> thenB,
     ElseIfBlocks |-> elseIfs, ElseBlock |-> elseB]
WhileStatement(cond, body) == [node |-> "WhileStatement", Condition |-> cond, Body |-> body]
ForEachStatement(var, iterable, body) ==
    [node |-> "ForEachStatement", Variable |-> var, Iterable |-> iterable, Body |-> body]
FunctionLiteral(params, body) ==
    [node |-> "FunctionLiteral", Parameters |-> params, Body |-> body]
PrintStatement(value) == [node |-> "PrintStatement", Value |-> value]
InputStatement(prompt) == [node |-> "InputStatement", Prompt |-> prompt]
ListLiteral(elems) == [node |-> "ListLiteral", Elements |-> elems]
GetItemAtIndexExpression(list, index) ==
    [node |-> "GetItemAtIndexExpression", List |-> list, Index |-> index]
IsDefinedExpression(id) == [node |-> "IsDefinedExpression", Identifier |-> id]
ExitStatement(code) == [node |-> "ExitStatement", Code |-> code]
ConvertToNumberExpression(e) == [node |-> "ConvertToNumberExpression", Expression |-> e]
ConvertToStringExpression(e) == [node |-> "ConvertToStringExpression", Expression |-> e]
PrefixExpression(op, right) == [node |-> "PrefixExpression", Operator |-> op, Right |-> right]
InfixExpression(left, op, right) ==
    [node |-> "InfixExpression", Left |-> left, Operator |-> op, Right |-> right]
CallExpression(fn, args) == [node |-> "CallExpression", Function |-> fn, Arguments |-> args]
Program(stmts) == [node |-> "Program", Statements |-> stmts]

-----------------------------------------------------------------------------
(* package parser.  A parse function yields the Parser afterwards (p) and the *)
(* node returned (n).                                                         *)

LOWEST == 1
EQUALS_PREC == 2
LESSGREATER_PREC == 3
SUM_PREC == 4
PRODUCT_PREC == 5
PREFIX_PREC == 6
CALL_PREC == 7
INDEX_PREC == 8

\* bound of the model: the tokens a Parser takes from its Lexer after the
\* first EOF token
MaxEOF == 6

RECURSIVE Tokens(_, _)
\* the tokens the calls of l.NextToken() return, one after the other, up to
\* the eofs-th EOF token
Tokens(l, eofs) ==
    LET r == NextToken(l)
    IN  IF r.tok.Type # EOF \/ r.l.position <= Len(r.l.input)
        THEN <<r.tok>> \o Tokens(r.l, eofs)
        ELSE IF eofs <= 1 THEN <<r.tok>>
        ELSE <<r.tok>> \o Tokens(r.l, eofs - 1)

\* p.l, the Lexer of a Parser, is held as the tokens p.l.NextToken() is still
\* to return; past the MaxEOF-th EOF the lexer goes on returning EOF tokens, each
\* one column further (readChar advances the column at the end of the input)
nextToken(q) ==
    IF q.l = <<>>
    THEN [q EXCEPT !.curToken = q.peekToken,
                   !.peekToken = [q.peekToken EXCEPT !.Column = @ + 1]]
    ELSE [q EXCEPT !.curToken = q.peekToken, !.peekToken = Head(q.l), !.l = Tail(q.l)]

NewParser(l) ==
    nextToken(nextToken([l |-> Tokens(l, MaxEOF), curToken |-> ZeroToken,
                         peekToken |-> ZeroToken, errors |-> <<>>, out |-> <<>>]))

curTokenIs(q, t) == q.curToken.Type = t
peekTokenIs(q, t) == q.peekToken.Type = t

peekError(q, t) ==
    [q EXCEPT !.errors = Append(@,
        Sprintf("expected next token to be %s, got %s instead at line %d, column %d",
                <<t, q.peekToken.Type, q.peekToken.Line, q.peekToken.Column>>))]

\* expectPeek: the Parser afterwards, and the bool returned
expectPeek(q, t) ==
    IF peekTokenIs(q, t) THEN [p |-> nextToken(q), ok |-> TRUE]
    ELSE [p |-> peekError(q, t), ok |-> FALSE]

noPrefixParseFnError(q, t) ==
    [q EXCEPT !.errors = Append(@,
        Sprintf("no prefix parse function for %s found at line %d, column %d",
                <<t, q.curToken.Line, q.curToken.Column>>))]

RECURSIVE DigitsValue(_, _, _)
\* the value of the digits s in the given base, after the value acc
DigitsValue(s, base, acc) ==
    IF s = <<>> THEN acc
    ELSE DigitsValue(Tail(s), base,
                     acc * base + (CHOOSE d \in 0..9 : ToString(d) = Head(s)))

\* strconv.ParseInt(s, 0, 64) on a NUMBER literal (digits and points, a digit
\* first): base 0 reads a leading "0" as the octal prefix
ParseInt(s) ==
    IF \E i \in 1..Len(s) : s[i] = "." THEN [ok |-> FALSE, val |-> 0]
    ELSE IF Len(s) > 1 /\ s[1] = "0"
    THEN IF \E i \in 2..Len(s) : s[i] \in {"8", "9"} THEN [ok |-> FALSE, val |-> 0]
         ELSE [ok |-> TRUE, val |-> DigitsValue(Tail(s), 8, 0)]
    ELSE [ok |-> TRUE, val |-> DigitsValue(s, 10, 0)]

parseIdentifier(q) == [p |-> q, n |-> Identifier(q.curToken.Literal)]

parseIntegerLiteral(q) ==
    LET r == ParseInt(q.curToken.Literal)
    IN  IF ~r.ok
        THEN [p |-> [q EXCEPT !.errors = Append(@,
                        Sprintf("could not parse %q as integer at line %d, column %d",
                                <<q.curToken.Literal, q.curToken.Line, q.curToken.Column>>))],
              n |-> Nil]
        ELSE [p |-> q, n |-> IntegerLiteral(r.val)]

parseStringLiteral(q) == [p |-> q, n |-> StringLiteral(q.curToken.Literal)]

parseBoolean(q) == [p |-> q, n |-> BooleanLiteral(curTokenIs(q, "TRUE"))]

\* parseIsDefinedExpression after its expectPeek(token.IDENT)
IsDefinedAfterIdent(e) ==
    IF ~e.ok THEN [p |-> e.p, n |-> Nil]
    ELSE [p |-> e.p, n |-> IsDefinedExpression(Identifier(e.p.curToken.Literal))]

parseIsDefinedExpression(q) == IsDefinedAfterIdent(expectPeek(q, IDENT))

RECURSIVE FunctionParametersLoop(_, _)
\* the "for p.peekTokenIs(token.IDENT)" loop of parseFunctionParameters
FunctionParametersLoop(q, ids) ==
    IF peekTokenIs(q, IDENT)
    THEN FunctionParametersLoop(nextToken(q), Append(ids, Identifier(q.peekToken.Literal)))
    ELSE [p |-> q, ids |-> ids]

parseFunctionParameters(q) ==
    IF ~curTokenIs(q, IDENT) THEN [p |-> q, ids |-> <<>>]
    ELSE FunctionParametersLoop(q, <<Identifier(q.curToken.Literal)>>)

\* the tokens parseListLiteral takes as the start of another element
StartsElement(q) ==
    q.peekToken.Type \in {IDENT, NUMBER, "STRING", "TRUE", "FALSE", "LIST",
                          "GETITEMATINDEX", "CONVERTTONUMBER", "CONVERTTOSTRING"}

\* A parse function is written as the steps it takes one after the other:
\* each step is given the result of the call before it (the Parser afterwards
\* and the node or bool returned) and the nodes kept so far.
RECURSIVE parseStatement(_), parseExpression(_, _), parseBlockStatement(_),
          BlockLoop(_, _), BlockAppend(_, _), parseIfStatement(_),
          IfAfterCondition(_), IfAfterThen(_, _), IfThenBlock(_, _),
          ElseIfLoop(_, _, _, _), ElseIfAfterCondition(_, _, _, _),
          ElseIfAfterThen(_, _, _, _, _), ElseIfBlockParsed(_, _, _, _, _),
          IfElse(_, _, _, _), IfAfterElse(_, _, _, _), IfAfterEndIf(_, _, _, _, _),
          parseWhileStatement(_), WhileAfterCondition(_), WhileAfterDo(_, _),
          WhileAfterBody(_, _), WhileAfterEndWhile(_, _, _),
          parseForEachStatement(_), ForEachAfterIdent(_), ForEachAfterIn(_, _),
          ForEachAfterIterable(_, _), ForEachAfterDo(_, _, _), ForEachAfterBody(_, _, _),
          ForEachAfterEndForEach(_, _, _, _),
          parseFunctionStatement(_), FunctionAfterParameters(_), FunctionAfterBody(_, _),
          FunctionAfterEndFunction(_, _, _), FunctionAfterEnd(_, _, _),
          parseListLiteral(_), ListLoop(_, _), ListAppend(_, _),
          parseGetItemAtIndexPrefix(_), GetItemAfterIndex(_), GetItemAfterFrom(_, _),
          GetItemAfterList(_, _), parseLetStatement(_), LetAfterIdent(_),
          LetAfterBe(_, _), LetAfterValue(_, _)

ExpressionStatementOf(e) == [p |-> e.p, n |-> ExpressionStatement(e.n)]

parseExpressionStatement(q) == ExpressionStatementOf(parseExpression(q, LOWEST))

ReturnStatementOf(e) == [p |-> e.p, n |-> ReturnStatement(e.n)]

parseReturnStatement(q) == ReturnStatementOf(parseExpression(nextToken(q), LOWEST))

PrintStatementOf(e) == [p |-> e.p, n |-> PrintStatement(e.n)]

parsePrintStatement(q) == PrintStatementOf(parseExpression(nextToken(q), LOWEST))

parseInputStatement(q) ==
    IF peekTokenIs(q, "STRING")
    THEN [p |-> nextToken(q), n |-> InputStatement(parseStringLiteral(nextToken(q)).n)]
    ELSE [p |-> q, n |-> InputStatement(Nil)]

ExitStatementOf(e) == [p |-> e.p, n |-> ExitStatement(e.n)]

parseExitStatement(q) ==
    IF ~peekTokenIs(q, "END") /\ ~peekTokenIs(q, EOF)
    THEN ExitStatementOf(parseExpression(nextToken(q), LOWEST))
    ELSE [p |-> q, n |-> ExitStatement(Nil)]

ConvertToNumberOf(e) == [p |-> e.p, n |-> ConvertToNumberExpression(e.n)]

parseConvertToNumberExpression(q) ==
    ConvertToNumberOf(parseExpression(nextToken(q), LOWEST))

ConvertToStringOf(e) == [p |-> e.p, n |-> ConvertToStringExpression(e.n)]

parseConvertToStringExpression(q) ==
    ConvertToStringOf(parseExpression(nextToken(q), LOWEST))

\* the debug lines parseLetStatement writes with fmt.Println
DebugPrint(q, line) == [q EXCEPT !.out = Append(@, line)]

parseLetStatement(q) ==
    LetAfterIdent(expectPeek(DebugPrint(q, "parseLetStatement: curToken="), IDENT))

LetAfterIdent(e1) ==
    IF ~e1.ok
    THEN [p |-> DebugPrint(e1.p, "parseLetStatement: expectPeek(IDENT) failed, peekToken="),
          n |-> Nil]
    ELSE LetAfterBe(Identifier(e1.p.curToken.Literal),
                    expectPeek(DebugPrint(e1.p, "parseLetStatement: after IDENT, curToken="),
                               "BE"))

LetAfterBe(name, e2) ==
    IF ~e2.ok
    THEN [p |-> DebugPrint(e2.p, "parseLetStatement: expectPeek(BE) failed, peekToken="),
          n |-> Nil]
    ELSE LetAfterValue(name, parseExpression(nextToken(e2.p), LOWEST))

LetAfterValue(name, v) == [p |-> v.p, n |-> LetStatement(name, v.n)]

\* registerParseFunctions (the prefix table) and parseExpression
parseExpression(q, precedence) ==
    LET t == q.curToken.Type
    IN  IF t = IDENT THEN parseIdentifier(q)
        ELSE IF t = NUMBER THEN parseIntegerLiteral(q)
        ELSE IF t = "STRING" THEN parseStringLiteral(q)
        ELSE IF t \in {"TRUE", "FALSE"} THEN parseBoolean(q)
        ELSE IF t = "FUNCTION" THEN parseFunctionStatement(q)
        ELSE IF t = "LIST" THEN parseListLiteral(q)
        ELSE IF t = "GETITEMATINDEX" THEN parseGetItemAtIndexPrefix(q)
        ELSE IF t = "ISDEFINED" THEN parseIsDefinedExpression(q)
        ELSE IF t = "CONVERTTONUMBER" THEN parseConvertToNumberExpression(q)
        ELSE IF t = "CONVERTTOSTRING" THEN parseConvertToStringExpression(q)
        ELSE [p |-> noPrefixParseFnError(q, t), n |-> Nil]

\* registerParseFunctions (the statement table) and parseStatement
parseStatement(q) ==
    LET t == q.curToken.Type
    IN  IF t = "LET" THEN parseLetStatement(q)
        ELSE IF t = "IF" THEN parseIfStatement(q)
        ELSE IF t = "PRINT" THEN parsePrintStatement(q)
        ELSE IF t = "WHILE" THEN parseWhileStatement(q)
        ELSE IF t = "FOREACH" THEN parseForEachStatement(q)
        ELSE IF t = "RETURN" THEN parseReturnStatement(q)
        ELSE IF t = "EXIT" THEN parseExitStatement(q)
        ELSE IF t = "INPUT" THEN parseInputStatement(q)
        ELSE parseExpressionStatement(q)

\* the token kinds at which parseBlockStatement stops
BlockTerminators == {"ENDIF", "ELSE", "ELSEIF", "ENDWHILE", "ENDFOREACH", "END", EOF}

\* the loop of parseBlockStatement
BlockLoop(q, stmts) ==
    IF q.curToken.Type \notin BlockTerminators
    THEN BlockAppend(parseStatement(q), stmts)
    ELSE [p |-> q, n |-> BlockStatement(stmts)]

\* the loop of parseBlockStatement after its parseStatement
BlockAppend(s, stmts) ==
    BlockLoop(nextToken(s.p), IF s.n # Nil THEN Append(stmts, s.n) ELSE stmts)

parseBlockStatement(q) == BlockLoop(nextToken(q), <<>>)

parseIfStatement(q) == IfAfterCondition(parseExpression(nextToken(q), LOWEST))

IfAfterCondition(c) == IfAfterThen(c.n, expectPeek(c.p, "THEN"))

IfAfterThen(cond, e1) ==
    IF ~e1.ok THEN [p |-> e1.p, n |-> Nil]
    ELSE IfThenBlock(cond, parseBlockStatement(e1.p))

IfThenBlock(cond, th) == ElseIfLoop(th.p, cond, th.n, <<>>)

\* the "for p.peekTokenIs(token.ELSEIF)" loop of parseIfStatement
ElseIfLoop(q, cond, thenBlock, blocks) ==
    IF peekTokenIs(q, "ELSEIF")
    THEN ElseIfAfterCondition(parseExpression(nextToken(q), LOWEST), cond, thenBlock, blocks)
    ELSE IfElse(q, cond, thenBlock, blocks)

ElseIfAfterCondition(c, cond, thenBlock, blocks) ==
    ElseIfAfterThen(c.n, expectPeek(c.p, "THEN"), cond, thenBlock, blocks)

ElseIfAfterThen(elseifCond, e, cond, thenBlock, blocks) ==
    IF ~e.ok THEN [p |-> e.p, n |-> Nil]
    ELSE ElseIfBlockParsed(elseifCond, parseBlockStatement(e.p), cond, thenBlock, blocks)

ElseIfBlockParsed(elseifCond, b, cond, thenBlock, blocks) ==
    ElseIfLoop(b.p, cond, thenBlock, Append(blocks, ElseIfBlock(elseifCond, b.n)))

\* parseIfStatement at its "if p.peekTokenIs(token.ELSE)"
IfElse(q, cond, thenBlock, blocks) ==
    IF peekTokenIs(q, "ELSE")
    THEN IfAfterElse(parseBlockStatement(nextToken(q)), cond, thenBlock, blocks)
    ELSE IfAfterElse([p |-> q, n |-> Nil], cond, thenBlock, blocks)

IfAfterElse(el, cond, thenBlock, blocks) ==
    IfAfterEndIf(expectPeek(el.p, "ENDIF"), cond, thenBlock, blocks, el.n)

IfAfterEndIf(e2, cond, thenBlock, blocks, elseBlock) ==
    IF ~e2.ok THEN [p |-> e2.p, n |-> Nil]
    ELSE [p |-> e2.p, n |-> IfStatement(cond, thenBlock, blocks, elseBlock)]

parseWhileStatement(q) == WhileAfterCondition(parseExpression(nextToken(q), LOWEST))

WhileAfterCondition(c) == WhileAfterDo(c.n, expectPeek(c.p, "DO"))

WhileAfterDo(cond, e1) ==
    IF ~e1.ok THEN [p |-> e1.p, n |-> Nil]
    ELSE WhileAfterBody(cond, parseBlockStatement(e1.p))

WhileAfterBody(cond, b) == WhileAfterEndWhile(cond, b.n, expectPeek(b.p, "ENDWHILE"))

WhileAfterEndWhile(cond, body, e2) ==
    IF ~e2.ok THEN [p |-> e2.p, n |-> Nil]
    ELSE [p |-> e2.p, n |-> WhileStatement(cond, body)]

parseForEachStatement(q) == ForEachAfterIdent(expectPeek(q, IDENT))

ForEachAfterIdent(e1) ==
    IF ~e1.ok THEN [p |-> e1.p, n |-> Nil]
    ELSE ForEachAfterIn(Identifier(e1.p.curToken.Literal), expectPeek(e1.p, "IN"))

ForEachAfterIn(var, e2) ==
    IF ~e2.ok THEN [p |-> e2.p, n |-> Nil]
    ELSE ForEachAfterIterable(var, parseExpression(nextToken(e2.p), LOWEST))

ForEachAfterIterable(var, it) == ForEachAfterDo(var, it.n, expectPeek(it.p, "DO"))

ForEachAfterDo(var, iterable, e3) ==
    IF ~e3.ok THEN [p |-> e3.p, n |-> Nil]
    ELSE ForEachAfterBody(var, iterable, parseBlockStatement(e3.p))

ForEachAfterBody(var, iterable, b) ==
    ForEachAfterEndForEach(var, iterable, b.n, expectPeek(b.p, "ENDFOREACH"))

ForEachAfterEndForEach(var, iterable, body, e4) ==
    IF ~e4.ok THEN [p |-> e4.p, n |-> Nil]
    ELSE [p |-> e4.p, n |-> ForEachStatement(var, iterable, body)]

parseFunctionStatement(q) ==
    IF peekTokenIs(q, IDENT)
    THEN FunctionAfterParameters(parseFunctionParameters(nextToken(q)))
    ELSE FunctionAfterParameters([p |-> q, ids |-> <<>>])

FunctionAfterParameters(ps) == FunctionAfterBody(ps.ids, parseBlockStatement(ps.p))

FunctionAfterBody(ids, b) == FunctionAfterEndFunction(ids, b.n, expectPeek(b.p, "ENDFUNCTION"))

\* "!p.expectPeek(token.ENDFUNCTION) && !p.expectPeek(token.END)": the second
\* call is made only when the first returned false
FunctionAfterEndFunction(ids, body, e1) ==
    IF e1.ok THEN [p |-> e1.p, n |-> FunctionLiteral(ids, body)]
    ELSE FunctionAfterEnd(ids, body, expectPeek(e1.p, "END"))

FunctionAfterEnd(ids, body, e2) ==
    IF ~e2.ok THEN [p |-> e2.p, n |-> Nil]
    ELSE [p |-> e2.p, n |-> FunctionLiteral(ids, body)]

\* the "for p.peekTokenIs(...) || ..." loop of parseListLiteral
ListLoop(q, elems) ==
    IF StartsElement(q)
    THEN ListAppend(parseExpression(nextToken(q), LOWEST), elems)
    ELSE [p |-> q, n |-> ListLiteral(elems)]

ListAppend(e, elems) == ListLoop(e.p, Append(elems, e.n))

parseListLiteral(q) ==
    IF peekTokenIs(q, "END") THEN [p |-> nextToken(q), n |-> ListLiteral(<<>>)]
    ELSE ListAppend(parseExpression(nextToken(q), LOWEST), <<>>)

parseGetItemAtIndexPrefix(q) == GetItemAfterIndex(parseExpression(nextToken(q), LOWEST))

GetItemAfterIndex(ix) == GetItemAfterFrom(ix.n, expectPeek(ix.p, "FROM"))

GetItemAfterFrom(index, e) ==
    IF ~e.ok THEN [p |-> e.p, n |-> Nil]
    ELSE GetItemAfterList(index, parseExpression(nextToken(e.p), LOWEST))

GetItemAfterList(index, ls) == [p |-> ls.p, n |-> GetItemAtIndexExpression(ls.n, index)]

RECURSIVE ProgramLoop(_, _), ProgramAppend(_, _)
\* the "for !p.curTokenIs(token.EOF)" loop of ParseProgram
ProgramLoop(q, stmts) ==
    IF ~curTokenIs(q, EOF)
    THEN ProgramAppend(parseStatement(q), stmts)
    ELSE [p |-> q, n |-> Program(stmts)]

\* the loop of ParseProgram after its parseStatement
ProgramAppend(s, stmts) ==
    ProgramLoop(nextToken(s.p), IF s.n # Nil THEN Append(stmts, s.n) ELSE stmts)

ParseProgram(q) == ProgramLoop(q, <<>>)

-----------------------------------------------------------------------------
(* package object *)

Integer(value) == [type |-> "INTEGER", Value |-> value]
\* a float64, held as the fraction <<numerator, denominator>> in lowest terms
Float(value) == [type |-> "FLOAT", Value |-> value]
StringObj(value) == [type |-> "STRING", Value |-> value]
ReturnValue(value) == [type |-> "RETURN_VALUE", Value |-> value]
Error(message) == [type |-> "ERROR", Message |-> message]
\* a *object.List: its address and its elements
List(addr, elements) == [type |-> "LIST", Addr |-> addr, Elements |-> elements]

\* object.TRUE, object.FALSE, object.NULL: the only Boolean and Null objects
TRUE_OBJ == [type |-> "BOOLEAN", Value |-> TRUE]
FALSE_OBJ == [type |-> "BOOLEAN", Value |-> FALSE]
NULL == [type |-> "NULL"]

NewError(format, args) == Error(Sprintf(format, args))

RECURSIVE NatToStr(_)
NatToStr(n) ==
    IF n < 10 THEN <<ToString(n)>> ELSE NatToStr(n \div 10) \o <<ToString(n % 10)>>

\* fmt.Sprintf("%d", n)
IntToStr(n) == IF n < 0 THEN <<"-">> \o NatToStr(-n) ELSE NatToStr(n)

Abs(n) == IF n < 0 THEN -n ELSE n

RECURSIVE PadLeft(_, _)
PadLeft(s, n) == IF Len(s) >= n THEN s ELSE PadLeft(<<"0">> \o s, n)

\* fmt.Sprintf("%f", f): six digits after the point
FloatToStr(f) ==
    LET micro == (Abs(f[1]) * 2000000 + f[2]) \div (2 * f[2])
    IN  (IF f[1] < 0 THEN <<"-">> ELSE <<>>)
        \o NatToStr(micro \div 1000000) \o <<".">> \o PadLeft(NatToStr(micro % 1000000), 6)

RECURSIVE Inspect(_), InspectElements(_)
InspectElements(elems) ==
    IF elems = <<>> THEN <<>>
    ELSE IF Len(elems) = 1 THEN Inspect(elems[1])
    ELSE Inspect(elems[1]) \o <<",", " ">> \o InspectElements(Tail(elems))

\* Inspect() of every object but an Error
Inspect(obj) ==
    CASE obj.type = "INTEGER" -> IntToStr(obj.Value)
      [] obj.type = "FLOAT" -> FloatToStr(obj.Value)
      [] obj.type = "BOOLEAN" -> IF obj.Value THEN Str("true") ELSE Str("false")
      [] obj.type = "STRING" -> obj.Value
      [] obj.type = "NULL" -> Str("null")
      [] obj.type = "RETURN_VALUE" -> Inspect(obj.Value)
      [] obj.type = "LIST" -> <<"[">> \o InspectElements(obj.Elements) \o <<"]">>

\* a line on standard output: the text of a value, or "ERROR: " and a message
OutLine(obj) ==
    IF obj.type = "ERROR" THEN [line |-> "ERROR: ", text |-> obj.Message]
    ELSE [line |-> "", text |-> Inspect(obj)]

-----------------------------------------------------------------------------
(* float64 arithmetic on fractions *)

RECURSIVE GCD(_, _)
GCD(a, b) == IF b = 0 THEN a ELSE GCD(b, a % b)

Frac(n, d) ==
    LET g == GCD(Abs(n), Abs(d))
        s == IF d < 0 THEN -1 ELSE 1
    IN  <<(s * n) \div g, (s * d) \div g>>

IntToFloat(n) == <<n, 1>>
FAdd(a, b) == Frac(a[1] * b[2] + b[1] * a[2], a[2] * b[2])
FSub(a, b) == Frac(a[1] * b[2] - b[1] * a[2], a[2] * b[2])
FMul(a, b) == Frac(a[1] * b[1], a[2] * b[2])
FDiv(a, b) == Frac(a[1] * b[2], a[2] * b[1])
FLess(a, b) == a[1] * b[2] < b[1] * a[2]

\* Go's integer division, which truncates toward zero
TruncDiv(a, b) ==
    IF (a >= 0) = (b >= 0) THEN Abs(a) \div Abs(b) ELSE -(Abs(a) \div Abs(b))

-----------------------------------------------------------------------------
(* package interpreter.  The state of an evaluation (st) is the chain of    *)
(* Environments from the outermost to the current one, standard output,     *)
(* standard input, the next free address, what became of the process, and   *)
(* the record of the Eval calls entered and returned.  An eval function     *)
(* yields the object returned (v) and the state afterwards (st).            *)

\* a run-time panic, which unwinds every caller
PANIC == [type |-> "panic"]

\* bound of the model: iterations of one while loop before it is taken to run forever
MaxIter == 3

NewEnvironment == [store |-> <<>>]

NewEvalState(in) ==
    [env |-> <<NewEnvironment>>, out |-> <<>>, stdin |-> in, next |-> 1,
     proc |-> "running", code |-> 0, trace |-> <<>>, enters |-> 0, sets |-> 0]

Halted(r) == r.st.proc # "running"
Halt(st, how, code) == [v |-> NilObject, st |-> [st EXCEPT !.proc = how, !.code = code]]

\* a map[string]object.Object as the sequence of its <<name, value>> entries
MapHas(m, name) == \E i \in 1..Len(m) : m[i][1] = name
MapGet(m, name) == m[CHOOSE i \in 1..Len(m) : m[i][1] = name][2]
MapSet(m, name, val) ==
    IF MapHas(m, name)
    THEN [i \in 1..Len(m) |-> IF m[i][1] = name THEN <<name, val>> ELSE m[i]]
    ELSE Append(m, <<name, val>>)

\* a Get that looks at the store of the k-th Environment alone
GetLocalOnly(env, k, name) ==
    IF MapHas(env[k].store, name) THEN [obj |-> MapGet(env[k].store, name), ok |-> TRUE]
    ELSE [obj |-> NilObject, ok |-> FALSE]

RECURSIVE EnvGet(_, _, _)
\* Environment.Get on the k-th Environment of the chain, whose outer is the (k-1)-th
EnvGet(env, k, name) ==
    IF MapHas(env[k].store, name) THEN [obj |-> MapGet(env[k].store, name), ok |-> TRUE]
    ELSE IF k > 1 THEN EnvGet(env, k - 1, name)
    ELSE [obj |-> NilObject, ok |-> FALSE]

\* Environment.Set on the k-th Environment of the chain
EnvSetAt(env, k, name, val) ==
    [env EXCEPT ![k].store = MapSet(@, name, val)]

\* Environment.Set on the current Environment
EnvSet(env, name, val) == EnvSetAt(env, Len(env), name, val)

\* no new Environment: the one given
SameEnvironment(env) == env

\* NewEnclosedEnvironment(the current Environment)
NewEnclosedEnvironment(env) == Append(env, NewEnvironment)

NeverAnError(obj) == FALSE

isError(obj) == IF obj # NilObject THEN obj.type = "ERROR" ELSE FALSE

NeverAReturnValue(obj) == FALSE

\* blockResult != nil && blockResult.Type() == object.RETURN_VALUE_OBJ, the test
\* of the two loops
isReturnValue(obj) == obj # NilObject /\ obj.type = "RETURN_VALUE"

nativeBoolToBooleanObject(b) == IF b THEN TRUE_OBJ ELSE FALSE_OBJ

\* a truthiness that only object.TRUE has
OnlyTrueIsTruthy(obj) == obj = TRUE_OBJ

isTruthy(obj) ==
    IF obj = NULL THEN FALSE
    ELSE IF obj = TRUE_OBJ THEN TRUE
    ELSE IF obj = FALSE_OBJ THEN FALSE
    ELSE TRUE

\* a not that returns its operand
SameObject(right) == right

evalNotOperatorExpression(right) ==
    IF right = TRUE_OBJ THEN FALSE_OBJ
    ELSE IF right = FALSE_OBJ THEN TRUE_OBJ
    ELSE IF right = NULL THEN TRUE_OBJ
    ELSE FALSE_OBJ

TypeMismatch(operator, left, right) ==
    NewError("Eval: Type mismatch for '%s' operator: %s %s %s",
             <<operator, left.type, operator, right.type>>)

\* the four numeric cases shared by the arithmetic operators: intOp on two
\* Integers, floatOp on two Floats or a Float and a widened Integer
Numeric(left, right, intOp(_, _), floatOp(_, _), other) ==
    IF left.type = "INTEGER" /\ right.type = "INTEGER"
    THEN intOp(left.Value, right.Value)
    ELSE IF left.type = "FLOAT" /\ right.type = "FLOAT"
    THEN floatOp(left.Value, right.Value)
    ELSE IF left.type = "FLOAT" /\ right.type = "INTEGER"
    THEN floatOp(left.Value, IntToFloat(right.Value))
    ELSE IF left.type = "INTEGER" /\ right.type = "FLOAT"
    THEN floatOp(IntToFloat(left.Value), right.Value)
    ELSE other

evalAddInfixExpression(operator, left, right) ==
    Numeric(left, right,
            LAMBDA a, b : Integer(a + b), LAMBDA a, b : Float(FAdd(a, b)),
            IF left.type = "STRING" /\ right.type = "STRING"
            THEN StringObj(left.Value \o right.Value)
            ELSE TypeMismatch(operator, left, right))

evalSubtractInfixExpression(operator, left, right) ==
    Numeric(left, right,
            LAMBDA a, b : Integer(a - b), LAMBDA a, b : Float(FSub(a, b)),
            TypeMismatch(operator, left, right))

evalMultiplyInfixExpression(operator, left, right) ==
    Numeric(left, right,
            LAMBDA a, b : Integer(a * b), LAMBDA a, b : Float(FMul(a, b)),
            TypeMismatch(operator, left, right))

\* the condition of the first if of evalDivideInfixExpression,
\*   right.(*object.Integer).Value == 0 && right.Type() == INTEGER_OBJ ||
\*   right.(*object.Float).Value == 0 && right.Type() == FLOAT_OBJ,
\* evaluated left to right: "true", "false", or "panic" when a type assertion fails
DivisorIsZero(right) ==
    IF right.type # "INTEGER" THEN "panic"          \* right.(*object.Integer)
    ELSE IF right.Value = 0 /\ right.type = "INTEGER" THEN "true"
    ELSE IF right.type # "FLOAT" THEN "panic"       \* right.(*object.Float)
    ELSE IF right.Value[1] = 0 /\ right.type = "FLOAT" THEN "true"
    ELSE "false"

evalDivideInfixExpression(operator, left, right) ==
    LET zero == DivisorIsZero(right)
    IN  IF zero = "panic" THEN PANIC
        ELSE IF zero = "true" THEN NewError("Eval: Division by zero error", <<>>)
        ELSE Numeric(left, right,
                     LAMBDA a, b : Integer(TruncDiv(a, b)), LAMBDA a, b : Float(FDiv(a, b)),
                     TypeMismatch(operator, left, right))

evalEqualsInfixExpression(operator, left, right) ==
    Numeric(left, right,
            LAMBDA a, b : nativeBoolToBooleanObject(a = b),
            LAMBDA a, b : nativeBoolToBooleanObject(a = b),
            IF left.type = "STRING" /\ right.type = "STRING"
            THEN nativeBoolToBooleanObject(left.Value = right.Value)
            ELSE IF left.type = "BOOLEAN" /\ right.type = "BOOLEAN"
            THEN nativeBoolToBooleanObject(left.Value = right.Value)
            ELSE nativeBoolToBooleanObject(left = right))

evalNotEqualsInfixExpression(operator, left, right) ==
    LET equalsResult == evalEqualsInfixExpression(Str("equals"), left, right)
    IN  IF isError(equalsResult) THEN equalsResult
        ELSE evalNotOperatorExpression(equalsResult)

evalGreaterThanInfixExpression(operator, left, right) ==
    Numeric(left, right,
            LAMBDA a, b : nativeBoolToBooleanObject(a > b),
            LAMBDA a, b : nativeBoolToBooleanObject(FLess(b, a)),
            TypeMismatch(operator, left, right))

evalLessThanInfixExpression(operator, left, right) ==
    Numeric(left, right,
            LAMBDA a, b : nativeBoolToBooleanObject(a < b),
            LAMBDA a, b : nativeBoolToBooleanObject(FLess(a, b)),
            TypeMismatch(operator, left, right))

evalGreaterOrEqualInfixExpression(operator, left, right) ==
    Numeric(left, right,
            LAMBDA a, b : nativeBoolToBooleanObject(a >= b),
            LAMBDA a, b : nativeBoolToBooleanObject(~FLess(a, b)),
            TypeMismatch(operator, left, right))

evalLessOrEqualInfixExpression(operator, left, right) ==
    Numeric(left, right,
            LAMBDA a, b : nativeBoolToBooleanObject(a <= b),
            LAMBDA a, b : nativeBoolToBooleanObject(~FLess(b, a)),
            TypeMismatch(operator, left, right))

evalAndInfixExpression(operator, left, right) ==
    nativeBoolToBooleanObject(isTruthy(left) /\ isTruthy(right))

evalOrInfixExpression(operator, left, right) ==
    nativeBoolToBooleanObject(isTruthy(left) \/ isTruthy(right))

\* the switch on ie.Operator of evalInfixExpression
InfixSwitch(operator, left, right) ==
    CASE operator = Str("add") -> evalAddInfixExpression(operator, left, right)
      [] operator = Str("subtract") -> evalSubtractInfixExpression(operator, left, right)
      [] operator = Str("multiply") -> evalMultiplyInfixExpression(operator, left, right)
      [] operator = Str("divide") -> evalDivideInfixExpression(operator, left, right)
      [] operator = Str("equals") -> evalEqualsInfixExpression(operator, left, right)
      [] operator = Str("notequals") -> evalNotEqualsInfixExpression(operator, left, right)
      [] operator = Str("greater") -> evalGreaterThanInfixExpression(operator, left, right)
      [] operator = Str("less") -> evalLessThanInfixExpression(operator, left, right)
      [] operator = Str("greater or equal") ->
            evalGreaterOrEqualInfixExpression(operator, left, right)
      [] operator = Str("less or equal") ->
            evalLessOrEqualInfixExpression(operator, left, right)
      [] operator = Str("and") -> evalAndInfixExpression(operator, left, right)
      [] operator = Str("or") -> evalOrInfixExpression(operator, left, right)
      [] OTHER -> NewError("Eval: Unknown infix operator: %s %s %s",
                           <<left.type, operator, right.type>>)

\* fmt.Println(text)
Println(st, line) == [st EXCEPT !.out = Append(@, line)]

\* the Go type of a node, as %T prints it
GoType(node) == IF node = Nil THEN "<nil>" ELSE "*ast." \o node.node

\* a ParseFloat that accepts no text
ParseNothing(s) == [ok |-> FALSE, f |-> <<0, 1>>]

\* strconv.ParseFloat on an optional sign, digits and an optional fraction;
\* other spellings the library accepts (exponents, hex, inf, nan, underscores)
\* are outside the texts of the model
ParseFloat(s) ==
    LET neg == s # <<>> /\ s[1] = "-"
        body == IF s # <<>> /\ s[1] \in {"-", "+"} THEN Tail(s) ELSE s
        dots == {i \in 1..Len(body) : body[i] = "."}
        dot == IF dots = {} THEN Len(body) + 1 ELSE CHOOSE i \in dots : TRUE
        whole == SubSeq(body, 1, dot - 1)
        frac == SubSeq(body, dot + 1, Len(body))
        all == whole \o frac
        ok == /\ all # <<>>
              /\ Cardinality(dots) <= 1
              /\ \A i \in 1..Len(all) : IsDigit(all[i])
        mag == IF ok THEN Frac(DigitsValue(all, 10, 0), 10 ^ Len(frac)) ELSE <<0, 1>>
    IN  [ok |-> ok, f |-> IF neg THEN <<-mag[1], mag[2]>> ELSE mag]

RECURSIVE Eval(_, _), EvalNode(_, _)
RECURSIVE ProgramStatements(_, _, _), BlockStatements(_, _, _), ElseIfBlocks(_, _, _)
RECURSIVE WhileLoop(_, _, _, _), ForEachLoop(_, _, _, _), evalExpressions(_, _, _)

evalProgram(node, st) == ProgramStatements(node.Statements, NilObject, st)

\* the loop of evalProgram over the statements still to run
ProgramStatements(stmts, result, st) ==
    IF stmts = <<>> THEN [v |-> result, st |-> st]
    ELSE LET r == Eval(Head(stmts), st)
         IN  IF Halted(r) THEN r
             ELSE IF r.v.type = "RETURN_VALUE" THEN [v |-> r.v.Value, st |-> r.st]
             ELSE IF r.v.type = "ERROR" THEN r
             ELSE ProgramStatements(Tail(stmts), r.v, r.st)

evalBlockStatement(block, st) == BlockStatements(block.Statements, NilObject, st)

\* the loop of evalBlockStatement over the statements still to run
BlockStatements(stmts, result, st) ==
    IF stmts = <<>> THEN [v |-> result, st |-> st]
    ELSE LET r == Eval(Head(stmts), st)
         IN  IF Halted(r) THEN r
             ELSE IF r.v # NilObject /\ r.v.type \in {"RETURN_VALUE", "ERROR"} THEN r
             ELSE BlockStatements(Tail(stmts), r.v, r.st)

evalIntegerLiteral(il) == Integer(il.Value)
evalFloatLiteral(fl) == Float(fl.Value)
evalStringLiteral(sl) == StringObj(sl.Value)
evalBooleanLiteral(bl) == nativeBoolToBooleanObject(bl.Value)

evalPrefixExpression(pe, st) ==
    LET r == Eval(pe.Right, st)
    IN  IF Halted(r) \/ isError(r.v) THEN r
        ELSE IF pe.Operator = Str("not")
        THEN [v |-> evalNotOperatorExpression(r.v), st |-> r.st]
        ELSE IF r.v = NilObject THEN Halt(r.st, "panic", 2)       \* right.Type() on nil
        ELSE [v |-> NewError("Eval: Unknown prefix operator: %s%s", <<pe.Operator, r.v.type>>),
              st |-> r.st]

\* an infix expression whose and / or leave the right operand alone when the
\* left one decides
ShortCircuit(ie, st) ==
    LET l == Eval(ie.Left, st)
    IN  IF Halted(l) \/ isError(l.v) THEN l
        ELSE IF ie.Operator = Str("and") /\ ~isTruthy(l.v) THEN [v |-> FALSE_OBJ, st |-> l.st]
        ELSE IF ie.Operator = Str("or") /\ isTruthy(l.v) THEN [v |-> TRUE_OBJ, st |-> l.st]
        ELSE LET r == Eval(ie.Right, l.st)
             IN  IF Halted(r) \/ isError(r.v) THEN r
                 ELSE [v |-> InfixSwitch(ie.Operator, l.v, r.v), st |-> r.st]

evalInfixExpression(ie, st) ==
    LET l == Eval(ie.Left, st)
    IN  IF Halted(l) \/ isError(l.v) THEN l
        ELSE LET r == Eval(ie.Right, l.st)
             IN  IF Halted(r) \/ isError(r.v) THEN r
                 ELSE LET v == IF l.v = NilObject \/ r.v = NilObject THEN PANIC
                               ELSE InfixSwitch(ie.Operator, l.v, r.v)
                      IN  IF v = PANIC THEN Halt(r.st, "panic", 2)
                          ELSE [v |-> v, st |-> r.st]

\* the loop of evalIfStatement over the elseif branches still to try
ElseIfBlocks(is, blocks, st) ==
    IF blocks = <<>>
    THEN IF is.ElseBlock # Nil THEN Eval(is.ElseBlock, st) ELSE [v |-> NULL, st |-> st]
    ELSE LET c == Eval(Head(blocks).Condition, st)
         IN  IF Halted(c) \/ isError(c.v) THEN c
             ELSE IF isTruthy(c.v) THEN Eval(Head(blocks).Block, c.st)
             ELSE ElseIfBlocks(is, Tail(blocks), c.st)

evalIfStatement(is, st) ==
    LET c == Eval(is.Condition, st)
    IN  IF Halted(c) \/ isError(c.v) THEN c
        ELSE IF isTruthy(c.v) THEN Eval(is.ThenBlock, c.st)
        ELSE ElseIfBlocks(is, is.ElseIfBlocks, c.st)

\* the loop of evalWhileStatement, n iterations into it
WhileLoop(ws, result, st, n) ==
    LET c == Eval(ws.Condition, st)
    IN  IF Halted(c) \/ isError(c.v) THEN c
        ELSE IF ~isTruthy(c.v) THEN [v |-> result, st |-> c.st]
        ELSE IF n >= MaxIter THEN Halt(c.st, "hang", 0)
        ELSE LET b == Eval(ws.Body, c.st)
             IN  IF Halted(b) THEN b
                 ELSE IF isReturnValue(b.v) THEN b
                 ELSE IF isError(b.v) THEN b
                 ELSE WhileLoop(ws, b.v, b.st, n + 1)

evalWhileStatement(ws, st) == WhileLoop(ws, NULL, st, 0)

\* the loop of evalForEachStatement over the elements still to visit
ForEachLoop(fes, elements, result, st) ==
    IF elements = <<>> THEN [v |-> result, st |-> st]
    ELSE LET currentEnv == EnvSet(NewEnclosedEnvironment(st.env),
                                  fes.Variable.Value, Head(elements))
             b == Eval(fes.Body, [st EXCEPT !.env = currentEnv, !.sets = @ + 1])
             \* back in env, the Environment the statement was given
             st2 == [b.st EXCEPT !.env = SubSeq(@, 1, Len(st.env))]
         IN  IF Halted(b) THEN b
             ELSE IF isReturnValue(b.v) THEN [v |-> b.v, st |-> st2]
             ELSE IF isError(b.v) THEN [v |-> b.v, st |-> st2]
             ELSE ForEachLoop(fes, Tail(elements), b.v, st2)

evalForEachStatement(fes, st) ==
    LET it == Eval(fes.Iterable, st)
    IN  IF Halted(it) \/ isError(it.v) THEN it
        ELSE IF it.v = NilObject THEN Halt(it.st, "panic", 2)     \* iterable.Type() on nil
        ELSE IF it.v.type # "LIST"
        THEN [v |-> NewError("Eval: 'for each' loop requires a list as iterable, got %s",
                             <<it.v.type>>),
              st |-> it.st]
        ELSE ForEachLoop(fes, it.v.Elements, NULL, it.st)

evalLetStatement(ls, st) ==
    LET r == Eval(ls.Value, st)
    IN  IF Halted(r) \/ isError(r.v) THEN r
        ELSE [v |-> r.v,
              st |-> [r.st EXCEPT !.env = EnvSet(@, ls.Name.Value, r.v), !.sets = @ + 1]]

evalReturnStatement(rs, st) ==
    LET r == Eval(rs.ReturnValue, st)
    IN  IF Halted(r) \/ isError(r.v) THEN r
        ELSE [v |-> ReturnValue(r.v), st |-> r.st]

evalIdentifier(node, st) ==
    LET g == EnvGet(st.env, Len(st.env), node.Value)
    IN  IF ~g.ok THEN NewError("Eval: Identifier not found: %s", <<node.Value>>)
        ELSE g.obj

evalPrintStatement(ps, st) ==
    LET r == Eval(ps.Value, st)
    IN  IF Halted(r) \/ isError(r.v) THEN r
        ELSE IF r.v = NilObject THEN Halt(r.st, "panic", 2)       \* value.Inspect() on nil
        ELSE [v |-> NULL, st |-> Println(r.st, OutLine(r.v))]

\* fmt.Print(prompt), then fmt.Scanln(&input) on a standard input of one-word lines
evalInputStatement(is, st) ==
    LET st1 == IF is.Prompt # Nil
               THEN [st EXCEPT !.out = Append(@, [line |-> "prompt", text |-> is.Prompt.Value])]
               ELSE st
    IN  IF st1.stdin = <<>> THEN [v |-> StringObj(<<>>), st |-> st1]
        ELSE [v |-> StringObj(Head(st1.stdin)), st |-> [st1 EXCEPT !.stdin = Tail(@)]]

\* evalExpressions over the expressions still to evaluate
evalExpressions(exps, results, st) ==
    IF exps = <<>> THEN [v |-> results, st |-> st]
    ELSE LET r == Eval(Head(exps), st)
         IN  IF Halted(r) THEN r
             ELSE IF isError(r.v) THEN [v |-> <<r.v>>, st |-> r.st]
             ELSE evalExpressions(Tail(exps), Append(results, r.v), r.st)

\* a list literal that keeps what evalExpressions returned, an Error too
ListOfResults(ll, st) ==
    LET r == evalExpressions(ll.Elements, <<>>, st)
    IN  IF Halted(r) THEN r
        ELSE [v |-> List(r.st.next, r.v), st |-> [r.st EXCEPT !.next = @ + 1]]

evalListLiteral(ll, st) ==
    LET r == evalExpressions(ll.Elements, <<>>, st)
    IN  IF Halted(r) THEN r
        ELSE IF Len(r.v) > 0 /\ isError(r.v[1]) THEN [v |-> r.v[1], st |-> r.st]
        ELSE [v |-> List(r.st.next, r.v), st |-> [r.st EXCEPT !.next = @ + 1]]

IndexAlwaysOutOfBounds(index, list) == TRUE

\* index.Value < 0 || index.Value >= int64(len(list.Elements))
IndexOutOfBounds(index, list) == index.Value < 0 \/ index.Value >= Len(list.Elements)

evalGetItemAtIndexExpression(giae, st) ==
    LET l == Eval(giae.List, st)
    IN  IF Halted(l) \/ isError(l.v) THEN l
        ELSE IF l.v = NilObject THEN Halt(l.st, "panic", 2)       \* listObj.Type() on nil
        ELSE IF l.v.type # "LIST"
        THEN [v |-> NewError("Eval: 'get item at index' expected a list, got %s",
                             <<l.v.type>>),
              st |-> l.st]
        ELSE LET i == Eval(giae.Index, l.st)
             IN  IF Halted(i) \/ isError(i.v) THEN i
                 ELSE IF i.v = NilObject THEN Halt(i.st, "panic", 2)
                 ELSE IF i.v.type # "INTEGER"
                 THEN [v |-> NewError("Eval: 'get item at index' index must be a number, got %s",
                                      <<i.v.type>>),
                       st |-> i.st]
                 ELSE IF IndexOutOfBounds(i.v, l.v)
                 THEN [v |-> NewError("Eval: Index out of bounds: %d, list length: %d",
                                      <<i.v.Value, Len(l.v.Elements)>>),
                       st |-> i.st]
                 ELSE [v |-> l.v.Elements[i.v.Value + 1], st |-> i.st]

evalIsDefinedExpression(ide, st) ==
    nativeBoolToBooleanObject(EnvGet(st.env, Len(st.env), ide.Identifier.Value).ok)

\* os.Exit(code) ends the process: evalExitStatement returns to nobody
\* an exit statement that returns object.NULL and ends nothing
ExitIgnored(es, st) == [v |-> NULL, st |-> st]

evalExitStatement(es, st) ==
    IF es.Code = Nil THEN Halt(st, "exit", 0)
    ELSE LET c == Eval(es.Code, st)
         IN  IF Halted(c) THEN c
             ELSE IF isError(c.v) THEN Halt(Println(c.st, OutLine(c.v)), "exit", 1)
             ELSE IF c.v # NilObject /\ c.v.type = "INTEGER"
             THEN Halt(c.st, "exit", c.v.Value)
             ELSE IF c.v = NilObject THEN Halt(c.st, "panic", 2)  \* codeObj.Type() on nil
             ELSE Halt(Println(c.st,
                               OutLine(NewError("Eval: Exit code must be an integer, got %s",
                                                <<c.v.type>>))),
                       "exit", 1)

evalConvertToNumberExpression(ctne, st) ==
    LET r == Eval(ctne.Expression, st)
    IN  IF Halted(r) \/ isError(r.v) THEN r
        ELSE IF r.v = NilObject THEN Halt(r.st, "panic", 2)       \* expValue.Type() on nil
        ELSE IF r.v.type = "STRING"
        THEN LET f == ParseFloat(r.v.Value)
             IN  IF ~f.ok
                 THEN [v |-> NewError("Eval: Cannot convert string '%s' to number: %s",
                                      <<r.v.Value, "invalid syntax">>),
                       st |-> r.st]
                 ELSE IF \E i \in 1..Len(r.v.Value) : r.v.Value[i] = "."
                 THEN [v |-> Float(f.f), st |-> r.st]
                 ELSE [v |-> Integer(f.f[1]), st |-> r.st]
        ELSE IF r.v.type \in {"INTEGER", "FLOAT"} THEN r
        ELSE [v |-> NewError("Eval: Cannot convert type %s to number", <<r.v.type>>),
              st |-> r.st]

evalConvertToStringExpression(ctse, st) ==
    LET r == Eval(ctse.Expression, st)
    IN  IF Halted(r) \/ isError(r.v) THEN r
        ELSE IF r.v = NilObject THEN Halt(r.st, "panic", 2)       \* expValue.Inspect() on nil
        ELSE [v |-> StringObj(Inspect(r.v)), st |-> r.st]

\* the type switch of Eval
EvalNode(node, st) ==
    CASE node.node = "Program" -> evalProgram(node, st)
      [] node.node = "ExpressionStatement" -> Eval(node.Expression, st)
      [] node.node = "IntegerLiteral" -> [v |-> evalIntegerLiteral(node), st |-> st]
      [] node.node = "FloatLiteral" -> [v |-> evalFloatLiteral(node), st |-> st]
      [] node.node = "StringLiteral" -> [v |-> evalStringLiteral(node), st |-> st]
      [] node.node = "BooleanLiteral" -> [v |-> evalBooleanLiteral(node), st |-> st]
      [] node.node = "PrefixExpression" -> evalPrefixExpression(node, st)
      [] node.node = "InfixExpression" -> evalInfixExpression(node, st)
      [] node.node = "BlockStatement" -> evalBlockStatement(node, st)
      [] node.node = "IfStatement" -> evalIfStatement(node, st)
      [] node.node = "WhileStatement" -> evalWhileStatement(node, st)
      [] node.node = "ForEachStatement" -> evalForEachStatement(node, st)
      [] node.node = "LetStatement" -> evalLetStatement(node, st)
      [] node.node = "ReturnStatement" -> evalReturnStatement(node, st)
      [] node.node = "Identifier" -> [v |-> evalIdentifier(node, st), st |-> st]
      [] node.node = "PrintStatement" -> evalPrintStatement(node, st)
      [] node.node = "InputStatement" -> evalInputStatement(node, st)
      [] node.node = "ListLiteral" -> evalListLiteral(node, st)
      [] node.node = "GetItemAtIndexExpression" -> evalGetItemAtIndexExpression(node, st)
      [] node.node = "IsDefinedExpression" -> [v |-> evalIsDefinedExpression(node, st), st |-> st]
      [] node.node = "ExitStatement" -> evalExitStatement(node, st)
      [] node.node = "ConvertToNumberExpression" -> evalConvertToNumberExpression(node, st)
      [] node.node = "ConvertToStringExpression" -> evalConvertToStringExpression(node, st)
      [] OTHER -> [v |-> NewError("Eval: Node type not handled: %T", <<GoType(node)>>),
                   st |-> st]

\* what the record of calls keeps of one return of Eval: the node's type, the
\* object returned, and how much had been printed, bound and entered by then
Returned(node, r) ==
    [node |-> node.node, v |-> r.v, out |-> Len(r.st.out), sets |-> r.st.sets,
     enters |-> r.st.enters]

\* Eval, which also keeps the record of its calls
Eval(node, st) ==
    LET r == EvalNode(node, [st EXCEPT !.enters = @ + 1])
    IN  IF Halted(r) THEN r
        ELSE [v |-> r.v, st |-> [r.st EXCEPT !.trace = Append(@, Returned(node, r))]]

-----------------------------------------------------------------------------
(* Values the variables hold while the component they belong to is not running *)

NoLexer == [input |-> <<>>, position |-> 0, readPosition |-> 0, ch |-> NUL,
            line |-> 0, column |-> 0, errors |-> <<>>]
NoParser == [l |-> <<>>, curToken |-> ZeroToken, peekToken |-> ZeroToken,
             errors |-> <<>>, out |-> <<>>]
NoProgram == Nil
NoEval == [env |-> <<>>, out |-> <<>>, stdin |-> <<>>, next |-> 1,
           proc |-> "none", code |-> 0, trace |-> <<>>, enters |-> 0, sets |-> 0]

\* the source text of a sequence of words
Text(ws) == JoinWords([i \in 1..Len(ws) |-> Str(ws[i])])

-----------------------------------------------------------------------------
(* Lexer harness: a client that builds a Lexer on a source text and pulls  *)
(* tokens from it, as parser.Parser.nextToken does.                         *)

MaxLexWords == 3
MaxPulls == 5

\* the words the source texts of the lexer harness are made of
LexVocab ==
    {"greater", "less", "or", "equal", "than", "end", "function", "get", "item", "at",
     "index", "is", "defined", "convert", "to", "number", "string", "x"}

\* the keyword phrases of several words, each followed by an identifier
PhraseTexts ==
    { <<"end", "function", "x">>, <<"greater", "or", "equal", "x">>,
      <<"less", "or", "equal", "x">>, <<"convert", "to", "number", "x">>,
      <<"convert", "to", "string", "x">>, <<"get", "item", "at", "index", "x">>,
      <<"is", "defined", "x">> }

LexTexts ==
    UNION { [1..n -> LexVocab] : n \in 0..MaxLexWords } \cup PhraseTexts

LexInit ==
    /\ \E ws \in LexTexts : input = Text(ws)
    /\ lx = New(input)
    /\ toks = <<>>
    /\ pc = "lex"
    /\ p = NoParser
    /\ program = NoProgram
    /\ ev = NoEval
    /\ evaluated = NilObject
    /\ evalCalls = <<>>
    /\ nlines = 0
    /\ stdin = <<>>

\* one call of lx.NextToken()
LexNext ==
    /\ pc = "lex"
    /\ Len(toks) < MaxPulls
    /\ \E r \in {NextToken(lx)} :
           /\ lx' = r.l
           /\ toks' = Append(toks, r.tok)
    /\ UNCHANGED <<pc, input, p, program, ev, evaluated, evalCalls, nlines, stdin>>

SpecLex == LexInit /\ [][LexNext]_vars

-----------------------------------------------------------------------------
(* Character harness: a client that builds a Lexer on a short text of any  *)
(* characters, and pulls tokens from it, calls peekKeyword on it, or gives  *)
(* the text to a Parser.                                                    *)

\* bound of the model: characters of a source text
MaxChars == 3

\* a letter, a digit, the space, the newline, the quote, the comment sign, a
\* character of no token, and the byte 0
Chars == {"x", "1", " ", "\n", "\"", "#", "@", NUL}

CharTexts == UNION { [1..n -> Chars] : n \in 0..MaxChars }

\* the keywords peeked at
PeekWords == { Str("x"), Str("or") }

CharInit ==
    /\ input \in CharTexts
    /\ lx = New(input)
    /\ toks = <<>>
    /\ pc = "lex"
    /\ p = NoParser
    /\ program = NoProgram
    /\ ev = NoEval
    /\ evaluated = NilObject
    /\ evalCalls = <<>>
    /\ nlines = 0
    /\ stdin = <<>>

\* one call of lx.peekKeyword(keyword); evaluated keeps the Lexer before it
CharPeek ==
    /\ pc = "lex"
    /\ \E keyword \in PeekWords :
       \E r \in {peekKeyword(lx, keyword)} :
           /\ lx' = r.l
           /\ evaluated' = [type |-> "peekKeyword", keyword |-> keyword, ok |-> r.ok,
                            before |-> lx]
    /\ pc' = "peeked"
    /\ UNCHANGED <<input, toks, p, program, ev, evalCalls, nlines, stdin>>

\* parser.New(lexer.New(input)).ParseProgram()
CharParse ==
    /\ pc = "lex"
    /\ toks = <<>>
    /\ \E r \in {ParseProgram(NewParser(New(input)))} :
           /\ p' = r.p
           /\ program' = r.n
    /\ pc' = "parsed"
    /\ UNCHANGED <<input, lx, toks, ev, evaluated, evalCalls, nlines, stdin>>

CharNext ==
    \/ LexNext
    \/ CharPeek
    \/ CharParse

SpecChars == CharInit /\ [][CharNext]_vars

-----------------------------------------------------------------------------
(* Evaluator harness: a client that calls Eval on a program tree in a new  *)
(* Environment, as the driver does.                                         *)

MaxInt == 2
MaxDepth == 2

IntLit(n) == IntegerLiteral(n)
Id(name) == Identifier(Str(name))

\* operand expressions: Integers, two Floats, a String, a Boolean, a List
Operands ==
    { IntLit(n) : n \in (0 - MaxInt)..MaxInt }
        \cup { FloatLiteral(<<1, 2>>), FloatLiteral(<<0, 1>>), StringLiteral(Str("a")),
               BooleanLiteral(TRUE), ListLiteral(<<>>) }

Operators ==
    {"add", "subtract", "multiply", "divide", "equals", "notequals", "greater", "less",
     "greater or equal", "less or equal", "and", "or"}

\* programs of one infix expression
InfixPrograms ==
    { Program(<<ExpressionStatement(InfixExpression(l, Str(op), r))>>) :
        l \in Operands, op \in Operators, r \in Operands }

\* statements that end in an Error, a ReturnValue, the end of the process, a
\* panic, or a plain value
Leaves ==
    { ExpressionStatement(Id("x")),
      PrintStatement(InfixExpression(Id("x"), Str("add"), IntLit(1))),
      PrintStatement(InfixExpression(IntLit(1), Str("add"), Id("x"))),
      LetStatement(Id("y"), InfixExpression(IntLit(1), Str("divide"), IntLit(0))),
      ExpressionStatement(ListLiteral(<<IntLit(1), Id("x"), IntLit(2)>>)),
      ExpressionStatement(GetItemAtIndexExpression(ListLiteral(<<IntLit(1)>>), IntLit(1))),
      ExpressionStatement(FunctionLiteral(<<>>, BlockStatement(<<>>))),
      ExpressionStatement(CallExpression(Id("f"), <<>>)),
      IfStatement(Id("x"), BlockStatement(<<>>), <<>>, Nil),
      ForEachStatement(Id("e"), IntLit(1), BlockStatement(<<>>)),
      ReturnStatement(IntLit(5)),
      ReturnStatement(Id("x")),
      ExitStatement(Id("x")),
      ExitStatement(IntLit(3)),
      ExitStatement(StringLiteral(Str("a"))),
      ExitStatement(Nil),
      ExpressionStatement(InfixExpression(IntLit(6), Str("divide"), IntLit(3))),
      PrintStatement(IntLit(1)) }

\* a leaf and the siblings after it
Siblings(leaf) == <<leaf, PrintStatement(IntLit(7)), LetStatement(Id("y"), IntLit(1))>>

Constructs == {"then", "elseif", "else", "while", "foreach"}

\* the statements stmts as the block of a construct
Wrap(c, stmts) ==
    CASE c = "then" -> IfStatement(BooleanLiteral(TRUE), BlockStatement(stmts), <<>>, Nil)
      [] c = "elseif" ->
            IfStatement(BooleanLiteral(FALSE), BlockStatement(<<>>),
                        <<ElseIfBlock(BooleanLiteral(FALSE), BlockStatement(<<>>)),
                          ElseIfBlock(BooleanLiteral(TRUE), BlockStatement(stmts))>>, Nil)
      [] c = "else" ->
            IfStatement(BooleanLiteral(FALSE), BlockStatement(<<>>), <<>>,
                        BlockStatement(stmts))
      [] c = "while" ->
            WhileStatement(PrefixExpression(Str("not"), IsDefinedExpression(Id("z"))),
                           BlockStatement(stmts \o <<LetStatement(Id("z"), IntLit(1))>>))
      [] c = "foreach" ->
            ForEachStatement(Id("e"), ListLiteral(<<IntLit(1), IntLit(2)>>), BlockStatement(stmts))

RECURSIVE Nest(_, _)
\* stmts inside d constructs, each followed by a sibling of its own
Nest(d, stmts) ==
    IF d = 0 THEN {stmts}
    ELSE { <<Wrap(c, s), PrintStatement(IntLit(8))>> : c \in Constructs, s \in Nest(d - 1, stmts) }

ControlPrograms ==
    { Program(<<PrintStatement(IntLit(0))>> \o s) :
        s \in UNION { Nest(d, Siblings(leaf)) : d \in 0..MaxDepth, leaf \in Leaves } }

\* foreach statements over Lists and over other values, whose body prints the
\* loop variable and then binds names; before them a let of the enclosing frame
ForEachIterables ==
    { ListLiteral(<<>>), ListLiteral(<<IntLit(1)>>), ListLiteral(<<IntLit(1), IntLit(2)>>),
      ListLiteral(<<IntLit(2), IntLit(1)>>),
      IntLit(1), StringLiteral(Str("a")), BooleanLiteral(TRUE) }

ForEachLets ==
    { LetStatement(Id("e"), IntLit(5)), LetStatement(Id("y"), Id("e")),
      LetStatement(Id("z"), IntLit(1)) }

ForEachBodies ==
    { <<PrintStatement(Id("e"))>> \o s :
        s \in {<<>>} \cup {<<a>> : a \in ForEachLets}
                 \cup {<<a, b>> : a \in ForEachLets, b \in ForEachLets} }

ForEachPrefixes == { <<>>, <<LetStatement(Id("e"), IntLit(0))>>, <<LetStatement(Id("y"), IntLit(0))>> }

ForEachPrograms ==
    { Program(pre \o <<ForEachStatement(Id("e"), it, BlockStatement(body))>>) :
        pre \in ForEachPrefixes, it \in ForEachIterables, body \in ForEachBodies }

\* get item at index on Lists and other values, at Integers and other values
GetItemLists ==
    { ListLiteral(<<>>), ListLiteral(<<IntLit(2)>>), ListLiteral(<<IntLit(2), IntLit(1)>>),
      IntLit(1), StringLiteral(Str("a")), Id("u") }

GetItemIndexes ==
    { IntLit(n) : n \in (0 - MaxInt)..MaxInt }
        \cup { StringLiteral(Str("a")), BooleanLiteral(TRUE), Id("u") }

GetItemPrograms ==
    { Program(<<ExpressionStatement(GetItemAtIndexExpression(l, i))>>) :
        l \in GetItemLists, i \in GetItemIndexes }

\* the code expressions of exit statements: none, Integers, an Error, other values
ExitCodes ==
    { Nil, Id("x"), StringLiteral(Str("a")), BooleanLiteral(TRUE), ListLiteral(<<>>) }
        \cup { IntLit(n) : n \in (0 - MaxInt)..MaxInt }

\* exit code inside constructs, with statements after it at every level
ExitProgramsOf(code) ==
    { Program(<<PrintStatement(IntLit(0))>> \o s) :
        s \in UNION { Nest(d, Siblings(ExitStatement(code))) : d \in 0..MaxDepth } }

ExitPrograms == UNION { ExitProgramsOf(code) : code \in ExitCodes }

\* the empty Program, an if whose branch has no statement, a foreach whose
\* body has none
EmptyBlockPrograms ==
    { Program(<<>>),
      Program(<<IfStatement(BooleanLiteral(TRUE), BlockStatement(<<>>), <<>>, Nil)>>),
      Program(<<ForEachStatement(Id("e"), ListLiteral(<<IntLit(1)>>), BlockStatement(<<>>))>>) }

MaxText == 3

\* the texts of at most MaxText characters among a digit, the point, the sign
\* and a letter
ConvertTexts == UNION { [1..n -> {"3", ".", "-", "a"}] : n \in 0..MaxText }

\* the operands of convert to number: Strings, numbers, other values, an Error
ConvertOperands ==
    { StringLiteral(s) : s \in ConvertTexts }
        \cup { IntLit(n) : n \in (0 - MaxInt)..MaxInt }
        \cup { FloatLiteral(<<1, 2>>), BooleanLiteral(TRUE), ListLiteral(<<>>), Id("u") }

\* convert to number, alone and under convert to string
ToNumberPrograms ==
    { Program(<<ExpressionStatement(ConvertToNumberExpression(e))>>) : e \in ConvertOperands }

ToStringPrograms ==
    { Program(<<ExpressionStatement(
                   ConvertToStringExpression(ConvertToNumberExpression(e)))>>) :
        e \in ConvertOperands }

ConvertPrograms == ToNumberPrograms \cup ToStringPrograms

\* bound of the model: elements of a list literal
MaxElems == 3

\* the operands that yield an Error: an identifier that is not bound, and an
\* addition of a String and an Integer
ErrorOperands ==
    { Id("u"), InfixExpression(StringLiteral(Str("a")), Str("add"), IntLit(1)) }

\* the elements of a list literal: values and the operands that yield an Error
ListElements ==
    { IntLit(1), IntLit(2), StringLiteral(Str("a")), BooleanLiteral(TRUE) }
        \cup ErrorOperands

\* programs of one list literal of at most MaxElems elements
ListPrograms ==
    { Program(<<ExpressionStatement(ListLiteral(es))>>) :
        es \in UNION { [1..n -> ListElements] : n \in 0..MaxElems } }

\* programs of one and / or, whose operands are truthy or falsy values or yield
\* an Error
LogicPrograms ==
    { Program(<<ExpressionStatement(InfixExpression(l, Str(op), r))>>) :
        l \in { BooleanLiteral(TRUE), BooleanLiteral(FALSE), IntLit(0) } \cup ErrorOperands,
        op \in {"and", "or"},
        r \in { BooleanLiteral(TRUE), BooleanLiteral(FALSE) } \cup ErrorOperands }

EvalPrograms ==
    InfixPrograms \cup ControlPrograms \cup ForEachPrograms \cup GetItemPrograms
        \cup ExitPrograms \cup EmptyBlockPrograms \cup ConvertPrograms
        \cup ListPrograms \cup LogicPrograms

EvalInit ==
    /\ program \in EvalPrograms
    /\ pc = "eval"
    /\ ev = NewEvalState(<<>>)
    /\ evaluated = NilObject
    /\ input = <<>>
    /\ lx = NoLexer
    /\ toks = <<>>
    /\ p = NoParser
    /\ evalCalls = <<>>
    /\ nlines = 0
    /\ stdin = <<>>

\* interpreter.Eval(program, env)
EvalProgram ==
    /\ pc = "eval"
    /\ \E r \in {Eval(program, ev)} :
           /\ ev' = r.st
           /\ evaluated' = r.v
    /\ pc' = "done"
    /\ UNCHANGED <<input, lx, toks, p, program, evalCalls, nlines, stdin>>

SpecEval == EvalInit /\ [][EvalProgram]_vars

-----------------------------------------------------------------------------
(* Operator harness: a client that calls the function of an infix operator *)
(* on two objects, as evalInfixExpression does once both operands are      *)
(* evaluated.  input holds the operator and the operands of the call.       *)

\* the operands: Integers, Floats, Strings, the Booleans, Null, and Lists, two
\* of which are distinct objects with equal elements
InfixObjects ==
    { Integer(n) : n \in (0 - MaxInt)..MaxInt }
        \cup { Float(<<1, 2>>), Float(<<0, 1>>), StringObj(<<>>), StringObj(Str("a")),
               TRUE_OBJ, FALSE_OBJ, NULL,
               List(1, <<>>), List(2, <<Integer(1)>>), List(3, <<Integer(1)>>) }

\* the source texts of the binary operators: the keywords of one word and the
\* phrases
OperatorTexts ==
    {"add", "sub", "mult", "div", "equals", "notequals", "greater", "less", "and", "or",
     "greater than", "less than", "greater or equal", "less or equal"}

\* the Operator parseInfixExpression gives an InfixExpression: the Literal of
\* the token the Lexer returns for the operator's text
OperatorOf(text) == NextToken(New(Str(text))).tok.Literal

InfixInit ==
    /\ pc = "infix"
    /\ input \in { [operator |-> op, left |-> l, right |-> r] :
                      op \in { Str(o) : o \in Operators }
                                \cup { OperatorOf(t) : t \in OperatorTexts },
                      l \in InfixObjects, r \in InfixObjects }
    /\ evaluated = NilObject
    /\ ev = NoEval
    /\ program = NoProgram
    /\ lx = NoLexer
    /\ toks = <<>>
    /\ p = NoParser
    /\ evalCalls = <<>>
    /\ nlines = 0
    /\ stdin = <<>>

\* the switch of evalInfixExpression on the operator, and the function it calls
InfixCall ==
    /\ pc = "infix"
    /\ evaluated' = InfixSwitch(input.operator, input.left, input.right)
    /\ pc' = "infix:done"
    /\ UNCHANGED <<input, lx, toks, p, program, ev, evalCalls, nlines, stdin>>

SpecInfix == InfixInit /\ [][InfixCall]_vars

-----------------------------------------------------------------------------
(* Environment harness: a client that makes Environments and calls Set and *)
(* Get on them.  ev.env is the chain of the Environments made, each the    *)
(* outer of the next; evaluated records the last call and what it returned. *)

MaxEnvs == 2

EnvNames == {Str("x"), Str("y")}
EnvValues == {Integer(1), Integer(2)}

EnvInit ==
    /\ pc = "env"
    /\ ev = [NoEval EXCEPT !.env = <<NewEnvironment>>]
    /\ evaluated = [op |-> "NewEnvironment"]
    /\ program = NoProgram
    /\ input = <<>>
    /\ lx = NoLexer
    /\ toks = <<>>
    /\ p = NoParser
    /\ evalCalls = <<>>
    /\ nlines = 0
    /\ stdin = <<>>

\* env := NewEnvironment(), the Environments made before being dropped
EnvNew ==
    /\ pc = "env"
    /\ ev' = [ev EXCEPT !.env = <<NewEnvironment>>]
    /\ evaluated' = [op |-> "NewEnvironment"]
    /\ UNCHANGED <<pc, input, lx, toks, p, program, evalCalls, nlines, stdin>>

\* env := NewEnclosedEnvironment(env)
EnvEnclose ==
    /\ pc = "env"
    /\ Len(ev.env) < MaxEnvs
    /\ ev' = [ev EXCEPT !.env = NewEnclosedEnvironment(@)]
    /\ evaluated' = [op |-> "NewEnclosedEnvironment"]
    /\ UNCHANGED <<pc, input, lx, toks, p, program, evalCalls, nlines, stdin>>

\* the innermost Environment is dropped, as when an iteration of foreach ends
EnvLeave ==
    /\ pc = "env"
    /\ Len(ev.env) > 1
    /\ ev' = [ev EXCEPT !.env = SubSeq(@, 1, Len(@) - 1)]
    /\ evaluated' = [op |-> "leave"]
    /\ UNCHANGED <<pc, input, lx, toks, p, program, evalCalls, nlines, stdin>>

\* e.Set(name, val) on an Environment e of the chain
EnvDoSet ==
    /\ pc = "env"
    /\ \E k \in 1..Len(ev.env), name \in EnvNames, val \in EnvValues :
           /\ ev' = [ev EXCEPT !.env = EnvSetAt(@, k, name, val)]
           /\ evaluated' = [op |-> "Set", k |-> k, name |-> name, val |-> val, ret |-> val]
    /\ UNCHANGED <<pc, input, lx, toks, p, program, evalCalls, nlines, stdin>>

\* obj, ok := e.Get(name) on an Environment e of the chain
EnvDoGet ==
    /\ pc = "env"
    /\ \E k \in 1..Len(ev.env), name \in EnvNames :
           \E r \in {EnvGet(ev.env, k, name)} :
               evaluated' = [op |-> "Get", k |-> k, name |-> name, obj |-> r.obj, ok |-> r.ok]
    /\ UNCHANGED <<pc, ev, input, lx, toks, p, program, evalCalls, nlines, stdin>>

EnvNext == EnvNew \/ EnvEnclose \/ EnvLeave \/ EnvDoSet \/ EnvDoGet

SpecEnv == EnvInit /\ [][EnvNext]_vars

-----------------------------------------------------------------------------
(* package main: runFile on the content of a file, and repl on the lines of *)
(* standard input.  Standard output is ev.out; besides the lines of          *)
(* evalPrintStatement it takes those of the parser and of the driver.        *)

MaxFrags == 2
MaxLines == 3

\* pieces of source text, as their words
Fragments ==
    { <<"let", "x", "be", "5">>,
      <<"x">>,
      <<"5">>,
      <<"if", "true", "then", "x", "endif">>,
      <<"while", "false", "do", "x", "endwhile">>,
      <<"foreach", "x", "in", "y", "do", "x", "endforeach">>,
      <<"if", "true", "then", "x", "endif", "endif">>,
      <<"if", "false", "then", "print", "1", "elseif", "true", "then", "print", "2",
        "else", "print", "3", "endif">>,
      <<"let", "1", "be", "2">>,
      <<"let", "3", "be", "5">>,
      <<"let", "x", "5">>,
      <<"let", "y", "6">>,
      <<"return", "5">>,
      <<"exit", "3">>,
      <<"let", "f", "be", "function", "a", "b", "return", "add", "a", "b", "end", "function",
        "call", "f", "2", "3">>,
      <<"a", "add", "b", "add", "c">>,
      <<"a", "add", "b", "mult", "c">>,
      <<"print", "5">>,
      <<"1.5">>,
      <<"1.2.5">>,
      <<"010">>,
      <<"08">> }

RECURSIVE Concat(_)
Concat(seqs) == IF seqs = <<>> THEN <<>> ELSE Head(seqs) \o Concat(Tail(seqs))

\* the contents of the files given to runFile
Sources ==
    { Text(Concat(fs)) : fs \in UNION { [1..n -> Fragments] : n \in 0..MaxFrags } }

\* the lines typed to repl, each ended by a newline
ReplLines ==
    { Text(ws) \o <<"\n">> :
        ws \in { <<"let", "x", "be", "5">>, <<"x">>, <<"let", "x", "5">>,
                 <<"let", "1", "be", "2">>, <<"exit">>, <<"exit", "3">> } }

NoErrorsSeen(q) == FALSE

\* len(p.Errors()) != 0, the test of runFile and of repl after ParseProgram
HasErrors(q) == Len(q.errors) # 0

DriverLine(kind, text) == [line |-> kind, text |-> text]

RECURSIVE ErrorLines(_)
ErrorLines(errors) ==
    IF errors = <<>> THEN <<>>
    ELSE <<DriverLine("\t", Head(errors))>> \o ErrorLines(Tail(errors))

printParserErrors(st, errors) ==
    [st EXCEPT !.out = @ \o <<DriverLine("Parser errors:", <<>>)>> \o ErrorLines(errors)]

\* what the parser printed, on standard output
ParserOutput(st, q) ==
    [st EXCEPT !.out = @ \o [i \in 1..Len(q.out) |-> DriverLine("parser", q.out[i])]]

\* the three lines of runFile around program.String()
PrintAST(st, prg) ==
    [st EXCEPT !.out = @ \o <<DriverLine("--- AST ---", <<>>),
                              DriverLine("program.String()", <<>>),
                              DriverLine("--- End AST ---", <<>>)>>]

Init ==
    /\ \/ /\ pc = "runFile"
          /\ input \in Sources
          /\ stdin = <<>>
       \/ /\ pc = "repl"
          /\ input = <<>>
          /\ stdin \in UNION { [1..n -> ReplLines] : n \in 0..(MaxLines - 1) }
    /\ lx = NoLexer
    /\ toks = <<>>
    /\ p = NoParser
    /\ program = NoProgram
    /\ ev = NewEvalState(<<>>)
    /\ evaluated = NilObject
    /\ evalCalls = <<>>
    /\ nlines = 0

\* runFile up to its test of p.Errors()
RunFileParse ==
    /\ pc = "runFile"
    /\ \E r \in {ParseProgram(NewParser(New(input)))} :
           /\ p' = r.p
           /\ program' = r.n
           /\ ev' = ParserOutput(ev, r.p)
    /\ pc' = "runFile:parsed"
    /\ UNCHANGED <<input, lx, toks, evaluated, evalCalls, nlines, stdin>>

\* runFile with diagnostics: print them and return
RunFileReport ==
    /\ pc = "runFile:parsed"
    /\ HasErrors(p)
    /\ ev' = printParserErrors(ev, p.errors)
    /\ pc' = "done"
    /\ UNCHANGED <<input, lx, toks, p, program, evaluated, evalCalls, nlines, stdin>>

\* runFile without diagnostics: print the tree, evaluate, print an Error result
RunFileEval ==
    /\ pc = "runFile:parsed"
    /\ ~HasErrors(p)
    /\ \E r \in {Eval(program, [PrintAST(ev, program) EXCEPT !.env = <<NewEnvironment>>])} :
           /\ evaluated' = r.v
           /\ ev' = IF ~Halted(r) /\ r.v # NilObject /\ r.v.type = "ERROR"
                    THEN Println(r.st, OutLine(r.v))
                    ELSE r.st
    /\ evalCalls' = Append(evalCalls, [errors |-> Len(p.errors), line |-> nlines])
    /\ pc' = "done"
    /\ UNCHANGED <<input, lx, toks, p, program, nlines, stdin>>

\* one turn of repl up to its test of p.Errors(): prompt, read a line (the
\* empty string at the end of standard input), leave on "exit\n", else parse
ReplRead ==
    /\ pc = "repl"
    /\ nlines < MaxLines
    /\ \E line \in {IF stdin = <<>> THEN <<>> ELSE Head(stdin)},
          prompted \in {[ev EXCEPT !.out = Append(@, DriverLine("prompt",
                                                               Str("WordLang > ")))]} :
           /\ input' = line
           /\ IF line = Str("exit") \o <<"\n">>
              THEN /\ pc' = "done"
                   /\ ev' = prompted
                   /\ UNCHANGED <<p, program>>
              ELSE \E r \in {ParseProgram(NewParser(New(line)))} :
                   /\ pc' = "repl:parsed"
                   /\ p' = r.p
                   /\ program' = r.n
                   /\ ev' = ParserOutput(prompted, r.p)
    /\ stdin' = IF stdin = <<>> THEN <<>> ELSE Tail(stdin)
    /\ nlines' = nlines + 1
    /\ UNCHANGED <<lx, toks, evaluated, evalCalls>>

\* repl with diagnostics: print them and go on to the next line
ReplReport ==
    /\ pc = "repl:parsed"
    /\ HasErrors(p)
    /\ ev' = printParserErrors(ev, p.errors)
    /\ pc' = "repl"
    /\ UNCHANGED <<input, lx, toks, p, program, evaluated, evalCalls, nlines, stdin>>

\* repl without diagnostics: evaluate in the one Environment, print the result
ReplEval ==
    /\ pc = "repl:parsed"
    /\ ~HasErrors(p)
    /\ \E r \in {Eval(program, ev)} :
           /\ evaluated' = r.v
           /\ ev' = IF ~Halted(r) /\ r.v # NilObject
                    THEN Println(r.st, OutLine(r.v))
                    ELSE r.st
           /\ pc' = IF Halted(r) THEN "done" ELSE "repl"
    /\ evalCalls' = Append(evalCalls, [errors |-> Len(p.errors), line |-> nlines])
    /\ UNCHANGED <<input, lx, toks, p, program, nlines, stdin>>

Next ==
    \/ RunFileParse
    \/ RunFileReport
    \/ RunFileEval
    \/ ReplRead
    \/ ReplReport
    \/ ReplEval

Spec == Init /\ [][Next]_vars

-----------------------------------------------------------------------------
(* Properties of the lexer, stated on SpecLex *)

RECURSIVE SplitWords(_, _, _)
\* the words of the text s, which single spaces separate, after the words acc
\* and the letters cur of the word being read
SplitWords(s, cur, acc) ==
    IF s = <<>> THEN (IF cur = <<>> THEN acc ELSE Append(acc, cur))
    ELSE IF Head(s) = " " THEN SplitWords(Tail(s), <<>>, Append(acc, cur))
    ELSE SplitWords(Tail(s), Append(cur, Head(s)), acc)

InputWords == SplitWords(input, <<>>, <<>>)

\* the keyword phrases of several words and the kind of token of each
Phrases ==
    { [words |-> <<"end", "function">>, type |-> "ENDFUNCTION"],
      [words |-> <<"greater", "or", "equal">>, type |-> "GREATEREQUAL"],
      [words |-> <<"less", "or", "equal">>, type |-> "LESSEQUAL"],
      [words |-> <<"convert", "to", "number">>, type |-> "CONVERTTONUMBER"],
      [words |-> <<"convert", "to", "string">>, type |-> "CONVERTTOSTRING"],
      [words |-> <<"get", "item", "at", "index">>, type |-> "GETITEMATINDEX"],
      [words |-> <<"is", "defined">>, type |-> "ISDEFINED"] }

\* the text begins with the words ws and goes on after them
BeginsWith(ws) ==
    /\ Len(InputWords) > Len(ws)
    /\ \A i \in 1..Len(ws) : InputWords[i] = Str(ws[i])

\* the tokens, from the i-th on, are those of the text from its k-th word on
RestLexedAlone(i, k) ==
    \E rest \in {Tokens(New(JoinWords(SubSeq(InputWords, k, Len(InputWords)))), MaxPulls)} :
        \A j \in i..Len(toks) :
            /\ toks[j].Type = rest[j - i + 1].Type
            /\ toks[j].Literal = rest[j - i + 1].Literal

\* C3: for each keyword phrase of several words, the words in a row with
\* whitespace between them, one call of NextToken returns one token of the
\* kind of the phrase and consumes all its words: the next call returns the
\* token of the first word after the phrase.
C3_PhraseIsOneToken ==
    \A ph \in Phrases :
        (BeginsWith(ph.words) /\ Len(toks) >= 2) =>
            /\ toks[1].Type = ph.type
            /\ RestLexedAlone(2, Len(ph.words) + 1)

\* greater or less, then a word that is not than, nor an or that equal follows
IsBareComparison ==
    /\ Len(InputWords) >= 2
    /\ InputWords[1] \in {Str("greater"), Str("less")}
    /\ InputWords[2] # Str("than")
    /\ InputWords[2] = Str("or") => (Len(InputWords) < 3 \/ InputWords[3] # Str("equal"))

\* C4: greater (or less) before a word that is not than, or before an or that
\* equal does not follow, gives the token GREATERTHAN (LESSTHAN) of that one
\* word and consumes no word after it; the word after it then comes once, as
\* a token of its own.
C4_BareComparisonFallback ==
    (IsBareComparison /\ Len(toks) >= 2) =>
        /\ toks[1].Type = IF InputWords[1] = Str("greater") THEN "GREATERTHAN" ELSE "LESSTHAN"
        /\ toks[1].Literal = InputWords[1]
        /\ RestLexedAlone(2, 2)

-----------------------------------------------------------------------------
(* Properties of the parser and of the driver, stated on Spec *)

\* the well-formed if, while and foreach statements, and the node of each
WellFormed ==
    { [words |-> <<"if", "true", "then", "x", "endif">>, node |-> "IfStatement"],
      [words |-> <<"while", "false", "do", "x", "endwhile">>, node |-> "WhileStatement"],
      [words |-> <<"foreach", "x", "in", "y", "do", "x", "endforeach">>,
       node |-> "ForEachStatement"] }

\* C5: a well-formed if ... then ... endif, while ... do ... endwhile and
\* foreach ... in ... do ... endforeach parse into their statement node with
\* no diagnostic: the block parser stops at the terminator and the parser of
\* the construct then recognises and consumes it.
C5_WellFormedConstructsParse ==
    \A wf \in WellFormed :
        (pc = "runFile:parsed" /\ input = Text(wf.words)) =>
            /\ p.errors = <<>>
            /\ Len(program.Statements) = 1
            /\ program.Statements[1].node = wf.node

IfElseIfElse ==
    <<"if", "false", "then", "print", "1", "elseif", "true", "then", "print", "2",
      "else", "print", "3", "endif">>

\* the lines on standard output that evaluation wrote
ProgramOutput(out) == SelectSeq(out, LAMBDA l : l.line = "")

\* C6: lexing, parsing and evaluating `if false then print 1 elseif true then
\* print 2 else print 3 endif` gives no diagnostic and writes the one line 2,
\* the if statement holding its elseif condition and block in ElseIfBlocks.
C6_ElseIfPrintsTwo ==
    (pc = "done" /\ input = Text(IfElseIfElse)) =>
        /\ p.errors = <<>>
        /\ Len(program.Statements) = 1
        /\ program.Statements[1].node = "IfStatement"
        /\ Len(program.Statements[1].ElseIfBlocks) = 1
        /\ Len(ProgramOutput(ev.out)) = 1
        /\ ProgramOutput(ev.out)[1].text = Str("2")

\* C7: in runFile and in every turn of repl, when the Parser holds diagnostics
\* after ParseProgram the driver does not call Eval on the program, nothing
\* is written by evaluation and no Environment changes.
C7_NoEvalAfterDiagnostics ==
    [][ Len(p.errors) # 0 =>
            /\ evalCalls' = evalCalls
            /\ ev'.env = ev.env
            /\ ProgramOutput(ev'.out) = ProgramOutput(ev.out)
            /\ evaluated' = evaluated ]_vars

\* repl has evaluated a line, then read one with diagnostics and printed them
C7_Witness ==
    /\ pc = "repl"
    /\ Len(p.errors) # 0
    /\ Len(evalCalls) = 1
    /\ ev.out[Len(ev.out)].line = "\t"

\* let statements with one mismatch of expectPeek each
OneMismatch ==
    { <<"let", "1", "be", "2">>, <<"let", "3", "be", "5">>,
      <<"let", "x", "5">>, <<"let", "y", "6">> }

\* C8: a program of two constructs with one expectPeek mismatch each leaves
\* exactly two diagnostics in Parser.Errors(): a mismatch adds one diagnostic
\* and none follows from it when parsing resumes.
C8_TwoErrorsTwoDiagnostics ==
    \A a \in OneMismatch, b \in OneMismatch :
        (pc = "runFile:parsed" /\ input = Text(a \o b)) => Len(p.errors) = 2

-----------------------------------------------------------------------------
(* Properties of the evaluator, stated on SpecEval *)

\* the one statement of the program is an infix expression
IsInfixProgram ==
    /\ Len(program.Statements) = 1
    /\ program.Statements[1].node = "ExpressionStatement"
    /\ program.Statements[1].Expression.node = "InfixExpression"

TheInfix == program.Statements[1].Expression

Arithmetic == {Str("add"), Str("subtract"), Str("multiply"), Str("divide")}

IsIntegerDivide ==
    /\ IsInfixProgram
    /\ TheInfix.Operator = Str("divide")
    /\ TheInfix.Left.node = "IntegerLiteral"
    /\ TheInfix.Right.node = "IntegerLiteral"

IsDivisionByZero(obj) ==
    /\ obj.type = "ERROR"
    /\ obj.Message.fmt = "Eval: Division by zero error"

\* C1: for all integers a and b, `a divide b` returns the Integer a/b truncated
\* toward zero when b is not 0 and a division-by-zero Error when b is 0, and
\* the evaluator never panics instead of returning an object.
C1_DivideIntegers ==
    (pc = "done" /\ IsIntegerDivide) =>
        /\ ev.proc = "running"
        /\ IF TheInfix.Right.Value = 0
           THEN IsDivisionByZero(evaluated)
           ELSE /\ evaluated.type = "INTEGER"
                /\ evaluated.Value = TruncDiv(TheInfix.Left.Value, TheInfix.Right.Value)

NumericNodes == {"IntegerLiteral", "FloatLiteral"}

\* an arithmetic operator on operands that are not both numbers, nor both
\* Strings under add
IsMismatchedArithmetic ==
    /\ IsInfixProgram
    /\ TheInfix.Operator \in Arithmetic
    /\ ~(TheInfix.Left.node \in NumericNodes /\ TheInfix.Right.node \in NumericNodes)
    /\ ~(/\ TheInfix.Operator = Str("add")
         /\ TheInfix.Left.node = "StringLiteral"
         /\ TheInfix.Right.node = "StringLiteral")

\* the type of the object a literal operand evaluates to
LiteralType(e) ==
    CASE e.node = "IntegerLiteral" -> "INTEGER"
      [] e.node = "FloatLiteral" -> "FLOAT"
      [] e.node = "StringLiteral" -> "STRING"
      [] e.node = "BooleanLiteral" -> "BOOLEAN"
      [] e.node = "ListLiteral" -> "LIST"

\* C2: add, subtract, multiply and divide on a pair of operands that is not
\* numeric/numeric (nor String/String for add) return an Error naming both
\* operand types and the operator, and never panic, on whichever side the
\* non-numeric operand is.
C2_ArithmeticTypeMismatch ==
    (pc = "done" /\ IsMismatchedArithmetic) =>
        /\ ev.proc = "running"
        /\ evaluated.type = "ERROR"
        /\ evaluated.Message.with =
              <<TheInfix.Operator, LiteralType(TheInfix.Left),
                TheInfix.Operator, LiteralType(TheInfix.Right)>>

\* the returns of Eval that returned an Error, and the first of them
ErrorReturns == {i \in 1..Len(ev.trace) : ev.trace[i].v.type = "ERROR"}
FirstError == CHOOSE i \in ErrorReturns : \A j \in ErrorReturns : i <= j

\* nothing was printed, bound or entered after the i-th return of Eval
NothingAfter(i) ==
    /\ Len(ev.out) = ev.trace[i].out
    /\ ev.sets = ev.trace[i].sets
    /\ ev.enters = ev.trace[i].enters

Enclosing == {"BlockStatement", "IfStatement", "WhileStatement", "ForEachStatement"}

\* every return of Eval after the i-th returns the object the i-th returned
PassedUpFrom(i) ==
    \A j \in (i + 1)..Len(ev.trace) : ev.trace[j].v = ev.trace[i].v

\* C9 as stated: once a sub-node yields an Error, nothing more is evaluated,
\* printed or bound, and Eval of the program returns that Error unchanged.
C9_FirstErrorWinsAlways ==
    (pc = "done" /\ ErrorReturns # {}) =>
        /\ ev.proc = "running"
        /\ NothingAfter(FirstError)
        /\ PassedUpFrom(FirstError)
        /\ evaluated = ev.trace[FirstError].v

\* C9: once a sub-node yields an Error, no further statement or operand is
\* evaluated and nothing more is bound; Eval of the program returns that Error
\* unchanged through every enclosing block, if, while and foreach, with no
\* later output, unless the Error is that of the code expression of an exit
\* statement, which prints it and ends the process with status 1.
C9_FirstErrorWins ==
    (pc = "done" /\ ErrorReturns # {}) =>
        /\ ev.sets = ev.trace[FirstError].sets
        /\ ev.enters = ev.trace[FirstError].enters
        /\ PassedUpFrom(FirstError)
        /\ IF ev.proc = "running"
           THEN /\ Len(ev.out) = ev.trace[FirstError].out
                /\ evaluated = ev.trace[FirstError].v
           ELSE /\ ev.proc = "exit"
                /\ ev.code = 1
                /\ Len(ev.out) = ev.trace[FirstError].out + 1
                /\ ev.out[Len(ev.out)] = OutLine(ev.trace[FirstError].v)

\* an Error came back through a while and a foreach, past siblings of its own
C9_Witness ==
    /\ pc = "done"
    /\ ErrorReturns # {}
    /\ ev.proc = "running"
    /\ \E j \in (FirstError + 1)..Len(ev.trace) : ev.trace[j].node = "WhileStatement"
    /\ \E j \in (FirstError + 1)..Len(ev.trace) : ev.trace[j].node = "ForEachStatement"
    /\ evaluated.type = "ERROR"

\* the returns of Eval that returned a ReturnValue, and the first of them
ReturnValueReturns == {i \in 1..Len(ev.trace) : ev.trace[i].v.type = "RETURN_VALUE"}
FirstReturn == CHOOSE i \in ReturnValueReturns : \A j \in ReturnValueReturns : i <= j

-----------------------------------------------------------------------------
(* Properties of the Environment, stated on SpecEnv *)

\* the Environments of the chain env up to the k-th that bind name
Binders(env, k, name) == {j \in 1..k : MapHas(env[j].store, name)}

Innermost(S) == CHOOSE j \in S : \A i \in S : i <= j

\* the two stores differ at most in the binding of name
SameButFor(s1, s2, name) ==
    \A n \in EnvNames \ {name} :
        /\ MapHas(s1, n) <=> MapHas(s2, n)
        /\ MapHas(s1, n) => MapGet(s1, n) = MapGet(s2, n)

\* C11: after any sequence of NewEnvironment, NewEnclosedEnvironment, Set
\* and Get, Set(name, v) on a frame changes only that frame's binding of
\* name, every other frame keeping its store, and Get(name) returns the
\* binding of the innermost frame of the chain that binds name, found being
\* false only if no frame of the chain binds it.
C11_SetLocalGetInnermost ==
    [][ /\ evaluated'.op = "Set" =>
            /\ Len(ev'.env) = Len(ev.env)
            /\ \A j \in 1..Len(ev.env) : j # evaluated'.k => ev'.env[j] = ev.env[j]
            /\ MapHas(ev'.env[evaluated'.k].store, evaluated'.name)
            /\ MapGet(ev'.env[evaluated'.k].store, evaluated'.name) = evaluated'.val
            /\ SameButFor(ev.env[evaluated'.k].store, ev'.env[evaluated'.k].store,
                          evaluated'.name)
        /\ evaluated'.op = "Get" =>
            /\ ev'.env = ev.env
            /\ LET B == Binders(ev.env, evaluated'.k, evaluated'.name)
               IN  IF B = {} THEN ~evaluated'.ok
                   ELSE /\ evaluated'.ok
                        /\ evaluated'.obj = MapGet(ev.env[Innermost(B)].store, evaluated'.name)
      ]_vars

\* Get on an enclosed frame that binds y found x in its outer frame, which
\* binds y to another value than the enclosed one does
C11_Witness ==
    /\ pc = "env"
    /\ evaluated.op = "Get"
    /\ evaluated.k = 2
    /\ evaluated.name = Str("x")
    /\ evaluated.ok
    /\ Binders(ev.env, 2, Str("x")) = {1}
    /\ evaluated.obj = MapGet(ev.env[1].store, Str("x"))
    /\ Binders(ev.env, 2, Str("y")) = {1, 2}
    /\ MapGet(ev.env[1].store, Str("y")) # MapGet(ev.env[2].store, Str("y"))

-----------------------------------------------------------------------------
(* Properties of foreach, stated on SpecEval *)

IsForEachProgram == program \in ForEachPrograms

TheForEach == program.Statements[Len(program.Statements)]

\* the store the lets before the foreach statement leave in the enclosing frame
PrefixStore ==
    [i \in 1..(Len(program.Statements) - 1) |->
        <<program.Statements[i].Name.Value, Integer(program.Statements[i].Value.Value)>>]

\* C12: in a foreach over a List every iteration runs its body in a new
\* child frame that binds the loop variable to the element of that
\* iteration: a let in the body, of the loop variable or of another name,
\* changes neither the value the loop variable has in a later iteration nor
\* any binding of the enclosing frame; an iterable that is not a List gives
\* an Error and no iteration.
C12_ForEachFreshFrame ==
    (pc = "done" /\ IsForEachProgram) =>
        /\ ev.proc = "running"
        /\ ev.env = <<[store |-> PrefixStore]>>
        /\ IF TheForEach.Iterable.node = "ListLiteral"
           THEN /\ ev.out = [i \in 1..Len(TheForEach.Iterable.Elements) |->
                               OutLine(Integer(TheForEach.Iterable.Elements[i].Value))]
                /\ evaluated.type # "ERROR"
           ELSE /\ ev.out = <<>>
                /\ evaluated.type = "ERROR"

\* a foreach over (1, 2) in a frame that binds e to 0 has printed 1 and 2,
\* its body binding e and y after the print
C12_Witness ==
    /\ pc = "done"
    /\ program = Program(<<LetStatement(Id("e"), IntLit(0)),
                           ForEachStatement(Id("e"), ListLiteral(<<IntLit(1), IntLit(2)>>),
                               BlockStatement(<<PrintStatement(Id("e")),
                                                LetStatement(Id("e"), IntLit(5)),
                                                LetStatement(Id("y"), Id("e"))>>))>>)
    /\ Len(ev.out) = 2
    /\ ev.out[2] = OutLine(Integer(2))
    /\ evaluated = Integer(5)

-----------------------------------------------------------------------------
(* Properties of functions and of expressions, stated on Spec *)

FunctionAndCall ==
    <<"let", "f", "be", "function", "a", "b", "return", "add", "a", "b", "end", "function",
      "call", "f", "2", "3">>

\* C13: `let f be function a b return add a b end function` and then
\* `call f 2 3` parse with no diagnostic, and evaluation, which binds the
\* parameters to the arguments in a new frame and unwraps the value
\* returned, yields the Integer 5.
C13_CallYieldsFive ==
    (pc = "done" /\ input = Text(FunctionAndCall)) =>
        /\ p.errors = <<>>
        /\ evaluated = Integer(5)

\* C20: parseExpression builds InfixExpression nodes by precedence, equal
\* precedences associating to the left: `a add b add c` parses as
\* ((a add b) add c) and `a add b mult c` as (a add (b mult c)), with no
\* diagnostic.
C20_PrecedenceClimbing ==
    /\ (pc = "runFile:parsed" /\ input = Text(<<"a", "add", "b", "add", "c">>)) =>
            /\ p.errors = <<>>
            /\ program.Statements =
                   <<ExpressionStatement(
                        InfixExpression(InfixExpression(Id("a"), Str("add"), Id("b")),
                                        Str("add"), Id("c")))>>
    /\ (pc = "runFile:parsed" /\ input = Text(<<"a", "add", "b", "mult", "c">>)) =>
            /\ p.errors = <<>>
            /\ program.Statements =
                   <<ExpressionStatement(
                        InfixExpression(Id("a"), Str("add"),
                                        InfixExpression(Id("b"), Str("mult"), Id("c"))))>>

-----------------------------------------------------------------------------
(* Properties of get item at index, stated on SpecEval *)

IsGetItemProgram == program \in GetItemPrograms

TheGetItem == program.Statements[1].Expression

\* the calls of Eval that evaluating the list side of TheGetItem takes
ListSideCalls ==
    IF TheGetItem.List.node = "ListLiteral" THEN 1 + Len(TheGetItem.List.Elements) ELSE 1

\* C14: get item at index i from l evaluates the list side first, which must
\* be a List, or the result is an Error and the index side is not evaluated;
\* the index side must then be an Integer, or the result is an Error; for a
\* List of length n and an Integer i the result is element i when
\* 0 <= i < n, and otherwise an Error whose message holds both i and n.
C14_GetItemAtIndex ==
    (pc = "done" /\ IsGetItemProgram) =>
        /\ ev.proc = "running"
        /\ IF TheGetItem.List.node # "ListLiteral"
           THEN /\ evaluated.type = "ERROR"
                /\ ev.enters = 3 + ListSideCalls
           ELSE /\ ev.enters = 3 + ListSideCalls + 1
                /\ IF TheGetItem.Index.node # "IntegerLiteral"
                   THEN evaluated.type = "ERROR"
                   ELSE IF /\ 0 <= TheGetItem.Index.Value
                           /\ TheGetItem.Index.Value < Len(TheGetItem.List.Elements)
                   THEN evaluated =
                            Integer(TheGetItem.List.Elements[TheGetItem.Index.Value + 1].Value)
                   ELSE /\ evaluated.type = "ERROR"
                        /\ evaluated.Message.with =
                               <<TheGetItem.Index.Value, Len(TheGetItem.List.Elements)>>

\* index 1 of the List (2, 1) gave its second element
C14_Witness ==
    /\ pc = "done"
    /\ IsGetItemProgram
    /\ TheGetItem.List = ListLiteral(<<IntLit(2), IntLit(1)>>)
    /\ TheGetItem.Index = IntLit(1)
    /\ evaluated = Integer(1)

-----------------------------------------------------------------------------
(* Properties of exit, stated on SpecEval *)

IsExitProgram == program \in ExitPrograms

TheExitCode == CHOOSE code \in ExitCodes : program \in ExitProgramsOf(code)

\* C15: an exit statement ends the run at once: no statement after it, in
\* its block, in an enclosing loop or in the rest of the program, is
\* evaluated.  The exit status is 0 without an expression, the value of
\* the Integer the expression yields, and 1, after the error is printed,
\* when the expression yields an Error or a value that is no Integer.
C15_ExitEndsRun ==
    (pc = "done" /\ IsExitProgram) =>
        /\ ev.proc = "exit"
        /\ Len(ev.out) >= 1
        /\ ev.out[1] = OutLine(Integer(0))
        /\ \A k \in 1..Len(ev.env) :
              ~MapHas(ev.env[k].store, Str("y")) /\ ~MapHas(ev.env[k].store, Str("z"))
        /\ IF TheExitCode = Nil
           THEN ev.code = 0 /\ Len(ev.out) = 1
           ELSE IF TheExitCode.node = "IntegerLiteral"
           THEN ev.code = TheExitCode.Value /\ Len(ev.out) = 1
           ELSE /\ ev.code = 1
                /\ Len(ev.out) = 2
                /\ ev.out[2].line = "ERROR: "

\* exit of a Boolean inside a foreach inside a while printed its error and
\* ended the run with status 1
C15_Witness ==
    /\ pc = "done"
    /\ IsExitProgram
    /\ TheExitCode = BooleanLiteral(TRUE)
    /\ program.Statements[2].node = "WhileStatement"
    /\ program.Statements[2].Body.Statements[1].node = "ForEachStatement"
    /\ ev.proc = "exit"
    /\ ev.code = 1
    /\ Len(ev.env) = 2

-----------------------------------------------------------------------------
(* Properties of the objects Eval returns, stated on SpecEval *)

StatementNodes ==
    { "Program", "LetStatement", "ReturnStatement", "ExpressionStatement", "BlockStatement",
      "IfStatement", "WhileStatement", "ForEachStatement", "PrintStatement",
      "InputStatement" }

\* C16: Eval of a Statement node returns an Object, the value of the last
\* expression, Null, a ReturnValue or an Error, and never nil: so do an
\* empty Program, an if whose branch has no statement and a foreach whose
\* body has no statement.
C16_StatementsYieldObjects ==
    pc = "done" =>
        \A i \in 1..Len(ev.trace) :
            ev.trace[i].node \in StatementNodes => ev.trace[i].v # NilObject

-----------------------------------------------------------------------------
(* Properties of the operators, stated on SpecInfix *)

\* neither Null nor the Boolean false
Truthy(obj) == ~(obj.type = "NULL" \/ (obj.type = "BOOLEAN" /\ obj.Value = FALSE))

\* C17: on two operands that are no Errors, and yields the Boolean true
\* exactly when both are truthy and or exactly when one at least is, Null
\* and the Boolean false alone being falsy (the Integer 0, the empty String
\* and the empty List are truthy); the result is one of the two shared
\* Boolean objects.
C17_AndOrTruthiness ==
    pc = "infix:done" =>
        /\ input.operator = Str("and") =>
               evaluated = IF Truthy(input.left) /\ Truthy(input.right)
                           THEN TRUE_OBJ ELSE FALSE_OBJ
        /\ input.operator = Str("or") =>
               evaluated = IF Truthy(input.left) \/ Truthy(input.right)
                           THEN TRUE_OBJ ELSE FALSE_OBJ

\* the Integer 0 and the empty String gave true
C17_Witness ==
    /\ pc = "infix:done"
    /\ input.operator = Str("and")
    /\ input.left = Integer(0)
    /\ input.right = StringObj(<<>>)
    /\ evaluated = TRUE_OBJ

NumericTypes == {"INTEGER", "FLOAT"}

\* C18: on every pair of operands notequals yields the negation of what
\* equals yields; equals compares two Integers, two Strings or two
\* Booleans by value, is false for operands of two kinds that are not
\* both numbers, and false for two distinct List objects, equal elements
\* or not.
C18_EqualsAndNotEquals ==
    pc = "infix:done" =>
        /\ input.operator = Str("notequals") =>
               /\ evaluated \in {TRUE_OBJ, FALSE_OBJ}
               /\ evaluated = TRUE_OBJ <=>
                      InfixSwitch(Str("equals"), input.left, input.right) = FALSE_OBJ
        /\ input.operator = Str("equals") =>
               /\ evaluated \in {TRUE_OBJ, FALSE_OBJ}
               /\ (/\ input.left.type = input.right.type
                   /\ input.left.type \in {"INTEGER", "STRING", "BOOLEAN"}) =>
                      (evaluated = TRUE_OBJ <=> input.left.Value = input.right.Value)
               /\ (/\ input.left.type # input.right.type
                   /\ ~(input.left.type \in NumericTypes /\ input.right.type \in NumericTypes)) =>
                      evaluated = FALSE_OBJ
               /\ (/\ input.left.type = "LIST" /\ input.right.type = "LIST"
                   /\ input.left.Addr # input.right.Addr) =>
                      evaluated = FALSE_OBJ

\* two distinct Lists of the same element are not equal
C18_Witness ==
    /\ pc = "infix:done"
    /\ input.operator = Str("notequals")
    /\ input.left = List(2, <<Integer(1)>>)
    /\ input.right = List(3, <<Integer(1)>>)
    /\ evaluated = TRUE_OBJ

-----------------------------------------------------------------------------
(* Properties of the conversions, stated on SpecEval *)

\* the operand of convert to number in a program of ConvertPrograms
TheOperand ==
    IF program \in ToNumberPrograms
    THEN program.Statements[1].Expression.Expression
    ELSE program.Statements[1].Expression.Expression.Expression

HasPoint(s) == \E i \in 1..Len(s) : s[i] = "."

\* an optional sign, then digits with at most one point among them
IsNumeral(s) ==
    LET body == IF s # <<>> /\ s[1] \in {"-", "+"} THEN Tail(s) ELSE s
    IN  /\ \A i \in 1..Len(body) : body[i] \in Digits \cup {"."}
        /\ Cardinality({i \in 1..Len(body) : body[i] = "."}) <= 1
        /\ \E i \in 1..Len(body) : body[i] \in Digits

\* C19: convert to number returns an Integer or a Float operand
\* unchanged; a String that parses as a number gives an Integer if and
\* only if its text holds no decimal point, so that convert to string of
\* it gives the text back, and a Float otherwise; a String that does not
\* parse gives an Error that names the text, any other operand an Error,
\* and nothing ends the run.
C19_ConvertToNumber ==
    (pc = "done" /\ program \in ConvertPrograms) =>
        /\ ev.proc = "running"
        /\ program \in ToNumberPrograms =>
              CASE TheOperand.node = "IntegerLiteral" -> evaluated = Integer(TheOperand.Value)
                [] TheOperand.node = "FloatLiteral" -> evaluated = Float(TheOperand.Value)
                [] TheOperand.node = "StringLiteral" ->
                      IF IsNumeral(TheOperand.Value)
                      THEN evaluated.type =
                               IF HasPoint(TheOperand.Value) THEN "FLOAT" ELSE "INTEGER"
                      ELSE /\ evaluated.type = "ERROR"
                           /\ evaluated.Message.with[1] = TheOperand.Value
                [] OTHER -> evaluated.type = "ERROR"
        /\ (/\ program \in ToStringPrograms
            /\ TheOperand.node = "StringLiteral"
            /\ IsNumeral(TheOperand.Value)
            /\ ~HasPoint(TheOperand.Value)) =>
              evaluated = StringObj(TheOperand.Value)

\* convert to string of convert to number "-33" gave "-33"
C19_Witness ==
    /\ pc = "done"
    /\ program \in ToStringPrograms
    /\ TheOperand = StringLiteral(<<"-", "3", "3">>)
    /\ evaluated = StringObj(<<"-", "3", "3">>)

-----------------------------------------------------------------------------
(* Properties of the statements and of the literals, stated on Spec *)

\* C21: a statement that begins with let, if, while, foreach, print, input,
\* return or exit goes to the statement parser of that keyword: `print 5` is
\* lexed with a PRINT token and parsed into one PrintStatement, whose
\* evaluation writes the one line 5 and yields Null.
C21_PrintStatementDispatch ==
    /\ (pc = "runFile:parsed" /\ input = Text(<<"print", "5">>)) =>
            /\ p.errors = <<>>
            /\ program.Statements = <<PrintStatement(IntLit(5))>>
    /\ (pc = "done" /\ input = Text(<<"print", "5">>)) =>
            /\ ProgramOutput(ev.out) = <<OutLine(Integer(5))>>
            /\ evaluated = NULL

\* source texts of one numeric literal
NumberTexts == { Text(<<w>>) : w \in {"5", "1.5", "1.2.5", "010", "08"} }

\* the number of decimal points of a literal
Points(s) == Cardinality({ i \in 1..Len(s) : s[i] = "." })

\* the one statement of the program parsed
TheLiteral == program.Statements[1].Expression

\* C22: a maximal run of digits and decimal points is lexed as one NUMBER
\* token; the parser makes an IntegerLiteral of a literal with no decimal
\* point, a FloatLiteral of a literal with exactly one, no diagnostic
\* recorded, and records a format diagnostic for a literal with two or more.
C22_NumericLiterals ==
    (pc = "runFile:parsed" /\ input \in NumberTexts) =>
        /\ Tokens(New(input), 1)[1].Type = NUMBER
        /\ Tokens(New(input), 1)[1].Literal = input
        /\ Tokens(New(input), 1)[2].Type = EOF
        /\ Len(program.Statements) = 1
        /\ CASE Points(input) = 0 -> p.errors = <<>> /\ TheLiteral.node = "IntegerLiteral"
             [] Points(input) = 1 -> p.errors = <<>> /\ TheLiteral.node = "FloatLiteral"
             [] OTHER -> Len(p.errors) = 1

\* C30: of a NUMBER token of decimal digits alone, leading zeros or not, the
\* parser makes the IntegerLiteral of the base-10 value of the digits and
\* records no diagnostic: 5 is 5, 010 is 10 and 08 is 8.
C30_DecimalDigitsBaseTen ==
    (pc = "runFile:parsed" /\ input \in NumberTexts /\ Points(input) = 0) =>
        /\ p.errors = <<>>
        /\ program.Statements =
               <<ExpressionStatement(IntegerLiteral(DigitsValue(input, 10, 0)))>>

-----------------------------------------------------------------------------
(* Properties of the operator strings, stated on SpecInfix *)

UnknownInfixOperator(obj) ==
    /\ obj.type = "ERROR"
    /\ obj.Message.fmt = "Eval: Unknown infix operator: %s %s %s"

\* C27: the Literal of the token the lexer returns for a binary operator,
\* which the parser takes as the Operator of an InfixExpression, is an
\* operator string evalInfixExpression handles: for no operator text
\* (sub, mult and div, greater than and less than among them) does
\* evaluation end in the Error "Unknown infix operator".
C27_OperatorStringsAgree ==
    (pc = "infix:done" /\ input.operator \in { OperatorOf(t) : t \in OperatorTexts }) =>
        ~UnknownInfixOperator(evaluated)

-----------------------------------------------------------------------------
(* Properties of list literals and of and / or, stated on SpecEval *)

\* what Eval of an expression alone, in a new Environment, returns and records
Alone(e) == Eval(e, NewEvalState(<<>>))

\* the node and the object of each return of Eval in a record of calls
Returns(trace) == [i \in 1..Len(trace) |-> <<trace[i].node, trace[i].v>>]

IsListProgram == program \in ListPrograms
TheElements == program.Statements[1].Expression.Elements

\* the elements that yield an Error
ErrorElements == { k \in 1..Len(TheElements) : Alone(TheElements[k]).v.type = "ERROR" }

\* the elements a list literal evaluates: all of them, or those up to the first
\* that yields an Error
Evaluated ==
    IF ErrorElements = {} THEN 1..Len(TheElements)
    ELSE 1..(CHOOSE k \in ErrorElements : \A j \in ErrorElements : k <= j)

RECURSIVE ReturnsOf(_, _)
\* the returns of Eval for the elements k..n of the list literal, in order
ReturnsOf(k, n) ==
    IF k > n THEN <<>>
    ELSE Returns(Alone(TheElements[k]).st.trace) \o ReturnsOf(k + 1, n)

\* C26: a list literal evaluates its elements from left to right; when
\* element k is the first to yield an Error, no element after k is evaluated
\* and the list literal yields that very Error; otherwise it yields a List
\* of the values of the elements in order, the empty List for no element.
C26_ListLiteralFirstError ==
    (pc = "done" /\ IsListProgram) =>
        LET n == Cardinality(Evaluated)
            own == ReturnsOf(1, n)
        IN  /\ ev.proc = "running"
            /\ SubSeq(Returns(ev.trace), 1, Len(own)) = own
            /\ Len(ev.trace) = Len(own) + 3
            /\ ev.trace[Len(own) + 1].node = "ListLiteral"
            /\ ev.trace[Len(own) + 1].v = evaluated
            /\ IF ErrorElements = {}
               THEN /\ evaluated.type = "LIST"
                    /\ evaluated.Elements =
                           [k \in 1..Len(TheElements) |-> Alone(TheElements[k]).v]
               ELSE evaluated = Alone(TheElements[n]).v

\* of list(1, u, "a" add 1) the second element yields the Error returned and
\* the third is not evaluated
C26_Witness ==
    /\ pc = "done"
    /\ IsListProgram
    /\ TheElements = <<IntLit(1), Id("u"),
                       InfixExpression(StringLiteral(Str("a")), Str("add"), IntLit(1))>>
    /\ evaluated = NewError("Eval: Identifier not found: %s", <<Str("u")>>)
    /\ Len(ev.trace) = 5

IsLogicProgram == program \in LogicPrograms
TheLogic == program.Statements[1].Expression

\* the returns of Eval for the left operand and then for the right one
BothOperands ==
    Returns(Alone(TheLogic.Left).st.trace) \o Returns(Alone(TheLogic.Right).st.trace)

\* C29 as stated: and / or always evaluate both operands, the left one and
\* then the right one, and return the Error of the right operand even when
\* the left operand alone decides the Boolean.
C29_BothOperandsAlways ==
    (pc = "done" /\ IsLogicProgram) =>
        /\ Len(ev.trace) = Len(BothOperands) + 3
        /\ SubSeq(Returns(ev.trace), 1, Len(BothOperands)) = BothOperands
        /\ (/\ Alone(TheLogic.Left).v.type # "ERROR"
            /\ Alone(TheLogic.Right).v.type = "ERROR") =>
               evaluated = Alone(TheLogic.Right).v

\* C29: and / or do not short-circuit: when the left operand yields no
\* Error the right operand is evaluated after it, whatever the left value,
\* and an Error of the right operand is returned even when the left operand
\* alone decides the Boolean (left falsy for and, left truthy for or); when
\* the left operand yields an Error, that Error is returned and the right
\* operand is not evaluated.
C29_NoShortCircuit ==
    (pc = "done" /\ IsLogicProgram) =>
        IF Alone(TheLogic.Left).v.type = "ERROR"
        THEN /\ Len(ev.trace) = Len(Alone(TheLogic.Left).st.trace) + 3
             /\ evaluated = Alone(TheLogic.Left).v
        ELSE /\ Len(ev.trace) = Len(BothOperands) + 3
             /\ SubSeq(Returns(ev.trace), 1, Len(BothOperands)) = BothOperands
             /\ IF Alone(TheLogic.Right).v.type = "ERROR"
                THEN evaluated = Alone(TheLogic.Right).v
                ELSE evaluated \in {TRUE_OBJ, FALSE_OBJ}

\* false and u evaluated u and returned its Error
C29_Witness ==
    /\ pc = "done"
    /\ IsLogicProgram
    /\ TheLogic = InfixExpression(BooleanLiteral(FALSE), Str("and"), Id("u"))
    /\ Returns(ev.trace)[1] = <<"BooleanLiteral", FALSE_OBJ>>
    /\ Returns(ev.trace)[2][1] = "Identifier"
    /\ evaluated = NewError("Eval: Identifier not found: %s", <<Str("u")>>)

-----------------------------------------------------------------------------
(* Properties of the lexer on texts of any characters, stated on SpecChars *)

RECURSIVE FirstAfter(_, _)
\* the place, counted from 1, of the first character of s at or after place i
\* that is no whitespace, Len(s) + 1 if there is none
FirstAfter(s, i) ==
    IF i > Len(s) THEN Len(s) + 1
    ELSE IF IsSpace(s[i]) THEN FirstAfter(s, i + 1)
    ELSE i

\* the newlines of s before place i
NewlinesBefore(s, i) == { j \in 1..(i - 1) : s[j] = "\n" }

\* the line of place i of s: 1 and the number of newlines before it
LineOf(s, i) == 1 + Cardinality(NewlinesBefore(s, i))

\* the column of place i of s: 1 and the number of characters between the
\* newline before it, or the start of s, and it
ColumnOf(s, i) ==
    IF NewlinesBefore(s, i) = {} THEN i
    ELSE i - (CHOOSE j \in NewlinesBefore(s, i) : \A k \in NewlinesBefore(s, i) : k <= j)

\* the token a step of the Lexer has returned
Returned1 == toks'[Len(toks')]

\* C23: every token NextToken returns carries the line and the column,
\* both counted from 1, of its first character: the line is 1 and the
\* number of newlines before the character, the column is 1 and the number
\* of characters between the newline before it (or the start of the input)
\* and it; so for identifiers, numbers, strings and the first token of the
\* input.
C23_TokenPositions ==
    [][ (pc = "lex" /\ Len(toks') = Len(toks) + 1) =>
            \A start \in {FirstAfter(input, lx.position + 1)} :
                (/\ start <= Len(input)
                 /\ input[start] \notin {"#", NUL}) =>
                    /\ Returned1.Line = LineOf(input, start)
                    /\ Returned1.Column = ColumnOf(input, start) ]_vars

\* the text has no comment and no string, and a character of no token in it
HasStrayCharacter ==
    /\ \A i \in 1..Len(input) : input[i] \notin {"#", "\""}
    /\ \E i \in 1..Len(input) : input[i] \in {"@", NUL}

\* C24: a character that is no whitespace and no part of a comment, a
\* string, a number or a word, the byte 0 before the end of the input
\* among them, makes an error be reported for the program: none is skipped
\* in silence and the text after it is not dropped in silence.
C24_StrayCharactersReported ==
    (pc = "parsed" /\ HasStrayCharacter) => Len(p.errors) > 0

\* C25: peekKeyword leaves the Lexer (position, readPosition, ch, column and
\* line) as it was before the call, the peeked word matching or not,
\* newlines among the whitespace it skips or not.
C25_PeekKeywordRestores ==
    pc = "peeked" => lx = evaluated.before

\* C28: on every text a call of NextToken that returns a token other than
\* EOF has moved the read position forward; EOF is returned after finitely
\* many calls, at the latest by the call after as many as the text has
\* characters; once EOF is returned every later call returns EOF; and
\* ParseProgram comes to an end on every text, at the EOF token.
C28_LexerProgress ==
    /\ [][ (pc = "lex" /\ Len(toks') = Len(toks) + 1) =>
               /\ Returned1.Type # EOF => lx'.readPosition > lx.readPosition
               /\ (toks # <<>> /\ toks[Len(toks)].Type = EOF) => Returned1.Type = EOF ]_vars
    /\ [](Len(toks) > Len(input) => \E i \in 1..Len(toks) : toks[i].Type = EOF)
    /\ [](pc = "parsed" => curTokenIs(p, EOF))

====
